---------------------------- MODULE Spec2Model ----------------------------
(***************************************************************************)
(* A model of the Study-Buddy core: the document structuring pipeline      *)
(* (useDocumentProcessor), the context builder (contextBuilder), the       *)
(* assistant orchestrator (useAssistant) and the voice hook                 *)
(* (useGlobalVoice).                                                        *)
(*                                                                         *)
(* JavaScript strings are TLA+ strings; TLC evaluates Len, \o and SubSeq   *)
(* on them, and a character is a string of length one.  Character offsets  *)
(* of the source are 0-based, positions of SubSeq are 1-based: the source's *)
(* s.slice(a, b) is SubSeq(s, a + 1, b).                                     *)
(***************************************************************************)
EXTENDS Integers, Sequences, FiniteSets, TLC

VARIABLES
    rawContent,     \* processDocument: the text extractContent returned
    chapters,       \* processDocument: the result of analyzeStructure, <<>> before it ran
    analyzed,       \* processDocument: whether analyzeStructure has returned
    page,           \* clampPage: the page argument (a JavaScript number)
    maxPage,        \* clampPage: the maxPage argument (a JavaScript number)
    clamped,        \* clampPage: the returned number, NoValue before the call
    text,           \* trimText / trimTextForSummary: the text argument
    maxChars,       \* trimText / trimTextForSummary: the maxChars argument
    trimmed,        \* trimText / trimTextForSummary: the returned string
    trimOp,         \* which of the two functions produced trimmed, "none" before the call
    ctxOpts,        \* buildAssistantContext: the opts argument
    segments,       \* buildAssistantContext: the segments array when the function returns
    context,        \* buildAssistantContext: the returned string
    built,          \* buildAssistantContext: whether the function has returned
    geminiApiKey,   \* config.geminiApiKey, "" when no key is configured
    isLoading,      \* useAssistant: the isLoading state
    responses,      \* useAssistant: the responses state, the conversation history
    calls,          \* useAssistant: the generate calls made so far, in the order issued
    events,         \* useAssistant: settled, the calls that settled since the last clear(),
                    \*   in order, and cleared, the calls issued before that clear()
    conceptContent, \* extractConcepts: the content argument
    concepts,       \* extractConcepts: the returned array
    extracted,      \* extractConcepts: whether the function has returned
    summaryInput,   \* generateDocumentSummary: its arguments, content, chapters and metadata
    now,            \* the clock: milliseconds since the epoch, as Date reads it
    summaryResults, \* generateDocumentSummary: the values returned by the calls so far
    upload,         \* processDocument: the running or last call, its file and its fault
    uploads,        \* processDocument: the number of calls made
    isProcessing,   \* useDocumentProcessor: the isProcessing state
    docCache,       \* lib/idb: the documents store, by file hash
    blobCache,      \* lib/idb: the hashes the pdf_blobs store holds a blob for
    voice,          \* useGlobalVoice: globalVoiceState, the refs of the hook instances,
                    \* the audio elements, the utterances and the calls made
    providers,      \* useGlobalVoice: hasGroqTts, hasElevenLabs and isSupported
    conversation,   \* useVoiceConversation: its state
    keysDown        \* the keys held down, as the keydown and keyup handlers see them

structVars == <<rawContent, chapters, analyzed>>
clampVars == <<page, maxPage, clamped>>
trimVars == <<text, maxChars, trimmed, trimOp>>
ctxVars == <<ctxOpts, segments, context, built>>
assistantVars == <<geminiApiKey, isLoading, responses, calls, events>>
conceptVars == <<conceptContent, concepts, extracted>>
summaryVars == <<summaryInput, now, summaryResults>>
processVars == <<upload, uploads, isProcessing, docCache, blobCache>>
voiceVars == <<voice, providers, conversation, keysDown>>
vars == <<structVars, clampVars, trimVars, ctxVars, assistantVars, conceptVars, summaryVars, processVars, voiceVars>>

NoValue == [k |-> "undefined", v |-> 0, half |-> FALSE]

\* useDocumentProcessor before the first call of processDocument
NoUpload ==
    [file |-> NoValue, fault |-> "none", state |-> "idle", document |-> NoValue,
     path |-> "none"]

\* The components a specification leaves alone stay as they are before their first call.
Idle(components) ==
    /\ "structure" \in components =>
          rawContent = "" /\ chapters = <<>> /\ analyzed = FALSE
    /\ "clamp" \in components =>
          page = NoValue /\ maxPage = NoValue /\ clamped = NoValue
    /\ "trim" \in components =>
          text = "" /\ maxChars = 0 /\ trimmed = "" /\ trimOp = "none"
    /\ "context" \in components =>
          ctxOpts = NoValue /\ segments = <<>> /\ context = "" /\ built = FALSE
    /\ "assistant" \in components =>
          /\ geminiApiKey = "" /\ isLoading = FALSE /\ responses = <<>> /\ calls = <<>>
          /\ events = [settled |-> <<>>, cleared |-> {}]
    /\ "concepts" \in components =>
          conceptContent = "" /\ concepts = <<>> /\ extracted = FALSE
    /\ "summary" \in components =>
          summaryInput = NoValue /\ now = 0 /\ summaryResults = <<>>
    /\ "process" \in components =>
          /\ upload = NoUpload /\ uploads = 0 /\ isProcessing = FALSE
          /\ docCache = {} /\ blobCache = {}
    /\ "voice" \in components =>
          /\ voice = NoValue /\ providers = NoValue
          /\ conversation = NoValue /\ keysDown = {}

-----------------------------------------------------------------------------
(* Bounds of the model *)

\* the number of lines of a document handed to analyzeStructure
MaxLines == 3

\* the largest maxPage handed to clampPage
MaxPages == 10

\* the largest number of times one word occurs in a content handed to extractConcepts
MaxFrequency == 22

\* the number of generateDocumentSummary calls on one document, and the
\* milliseconds the clock runs while they are made
MaxSummaries == 2
MaxTime == 3

\* the number of processDocument calls made on one useDocumentProcessor
MaxUploads == 2

\* the number of generate calls made on one useAssistant
MaxCalls == 2

\* the number of speak and speakContinuous calls made on useGlobalVoice
MaxSpeaks == 2

\* the longest text and the largest budget handed to trimText
MaxTextLen == 5
MaxBudget == 7

-----------------------------------------------------------------------------
(* Strings *)

Max(a, b) == IF a >= b THEN a ELSE b
Min(a, b) == IF a <= b THEN a ELSE b

CharAt(s, i) == SubSeq(s, i, i)

\* the characters String.prototype.trim removes and \s matches (those the model uses)
IsSpace(c) == c \in {" ", "\n", "\t", "\r"}

IsDigit(c) == c \in {"0", "1", "2", "3", "4", "5", "6", "7", "8", "9"}

\* the lower-case letter of each upper-case letter
LowerOf ==
    [A |-> "a", B |-> "b", C |-> "c", D |-> "d", E |-> "e", F |-> "f", G |-> "g",
     H |-> "h", I |-> "i", J |-> "j", K |-> "k", L |-> "l", M |-> "m", N |-> "n",
     O |-> "o", P |-> "p", Q |-> "q", R |-> "r", S |-> "s", T |-> "t", U |-> "u",
     V |-> "v", W |-> "w", X |-> "x", Y |-> "y", Z |-> "z"]

LowerLetters == {LowerOf[c] : c \in DOMAIN LowerOf}

toLowerChar(c) == IF c \in DOMAIN LowerOf THEN LowerOf[c] ELSE c

RECURSIVE Repeat(_, _)
Repeat(s, n) ==
    IF n <= 0 THEN ""
    ELSE IF n % 2 = 1 THEN s \o Repeat(s, n - 1)
    ELSE LET half == Repeat(s, n \div 2) IN half \o half

RECURSIVE SkipSpaceForward(_, _)
SkipSpaceForward(s, i) ==
    IF i <= Len(s) /\ IsSpace(CharAt(s, i)) THEN SkipSpaceForward(s, i + 1) ELSE i

RECURSIVE SkipSpaceBackward(_, _)
SkipSpaceBackward(s, j) ==
    IF j >= 1 /\ IsSpace(CharAt(s, j)) THEN SkipSpaceBackward(s, j - 1) ELSE j

\* String.prototype.trim
trim(s) == SubSeq(s, SkipSpaceForward(s, 1), SkipSpaceBackward(s, Len(s)))

\* s.slice(a, b) for 0 <= a, 0 <= b (0-based, end exclusive, clamped to the length)
slice(s, a, b) == SubSeq(s, a + 1, Min(b, Len(s)))

\* s.split('\n'): line k runs from behind the (k-1)-th line break to before the k-th
splitLines(s) ==
    LET breaks == {i \in 1..Len(s) : CharAt(s, i) = "\n"}
        nth(k) == CHOOSE i \in breaks : Cardinality({j \in breaks : j < i}) = k - 1
        from(k) == IF k = 1 THEN 1 ELSE nth(k - 1) + 1
        to(k) == IF k = Cardinality(breaks) + 1 THEN Len(s) ELSE nth(k) - 1
    IN  [k \in 1..(Cardinality(breaks) + 1) |-> SubSeq(s, from(k), to(k))]

\* s.startsWith(p)
HasPrefix(s, p) == Len(s) >= Len(p) /\ SubSeq(s, 1, Len(p)) = p

\* s.includes(t)
Contains(s, t) == \E i \in 1..(Len(s) - Len(t) + 1) : SubSeq(s, i, i + Len(t) - 1) = t

\* the maximal runs of the characters a to b of s whose positions lie outside
\* gaps, in order; two halves meet in one run when no gap parts them
RECURSIVE runsInRange(_, _, _, _)
runsInRange(s, gaps, a, b) ==
    IF a > b THEN <<>>
    ELSE IF a = b THEN (IF a \in gaps THEN <<>> ELSE <<CharAt(s, a)>>)
    ELSE LET mid == (a + b) \div 2
             left == runsInRange(s, gaps, a, mid)
             right == runsInRange(s, gaps, mid + 1, b)
         IN  IF mid \in gaps \/ (mid + 1) \in gaps \/ left = <<>> \/ right = <<>>
             THEN left \o right
             ELSE SubSeq(left, 1, Len(left) - 1)
                    \o <<left[Len(left)] \o right[1]>> \o Tail(right)

\* the maximal runs of the positions of s outside gaps, in order
runsOutside(s, gaps) == runsInRange(s, gaps, 1, Len(s))

RECURSIVE JoinLines(_)
JoinLines(ls) ==
    IF Len(ls) = 0 THEN ""
    ELSE IF Len(ls) = 1 THEN ls[1]
    ELSE ls[1] \o "\n" \o JoinLines(Tail(ls))

\* text.trim().split(/\s+/).filter(word => word.length > 0).length
countWords(s) ==
    Cardinality({i \in 1..Len(s) :
        /\ ~IsSpace(CharAt(s, i))
        /\ (i = 1 \/ IsSpace(CharAt(s, i - 1)))})

-----------------------------------------------------------------------------
(* analyzeStructure: chapter detection *)

\* line.length < 100 of the marker heuristic
MarkerMaxLen == 100

RECURSIVE DigitRun(_, _)
\* the number of digits line starts with, counted from position i
DigitRun(line, i) ==
    IF i <= Len(line) /\ IsDigit(CharAt(line, i)) THEN 1 + DigitRun(line, i + 1) ELSE 0

\* the first n characters of s, lower-cased
RECURSIVE LowerPrefix(_, _)
LowerPrefix(s, n) ==
    IF n <= 0 \/ Len(s) = 0 THEN ""
    ELSE toLowerChar(CharAt(s, 1)) \o LowerPrefix(Tail(s), n - 1)

\* line.match(/^(Chapter|CHAPTER|\d+\.|\d+\s)/i)
matchesMarkerRegex(line) ==
    \/ LowerPrefix(line, 7) = "chapter"
    \/ LET n == DigitRun(line, 1)
       IN  /\ n >= 1
           /\ n < Len(line)
           /\ (CharAt(line, n + 1) = "." \/ IsSpace(CharAt(line, n + 1)))

isChapterMarker(line) == matchesMarkerRegex(line) /\ Len(line) < MarkerMaxLen

\* "Close previous chapter": the last chapter of chs ends at position pos
closeChapter(chs, pos, content) ==
    IF Len(chs) = 0 THEN chs
    ELSE LET last == chs[Len(chs)]
         IN  [chs EXCEPT ![Len(chs)] =
                [last EXCEPT !.endPosition = pos,
                             !.wordCount = countWords(slice(content, last.startPosition, pos))]]

\* "Start new chapter"
newChapter(line, pos, content) ==
    [title |-> line, startPosition |-> pos, endPosition |-> Len(content), wordCount |-> 0]

\* scanLines with the line break left out of the running position
RECURSIVE scanLines_noLineBreak(_, _, _, _, _)
scanLines_noLineBreak(lines, i, currentPosition, chs, content) ==
    IF i > Len(lines) THEN chs
    ELSE LET line == trim(lines[i])
             next == IF isChapterMarker(line)
                     THEN Append(closeChapter(chs, currentPosition, content),
                                 newChapter(line, currentPosition, content))
                     ELSE chs
         IN  scanLines_noLineBreak(lines, i + 1, currentPosition + Len(lines[i]), next, content)

\* scanLines with the running position advanced before the marker test
RECURSIVE scanLines_advanceFirst(_, _, _, _, _)
scanLines_advanceFirst(lines, i, currentPosition, chs, content) ==
    IF i > Len(lines) THEN chs
    ELSE LET line == trim(lines[i])
             pos == currentPosition + Len(lines[i]) + 1
             next == IF isChapterMarker(line)
                     THEN Append(closeChapter(chs, pos, content), newChapter(line, pos, content))
                     ELSE chs
         IN  scanLines_advanceFirst(lines, i + 1, pos, next, content)

\* the for loop over the lines, from line i on, with the running currentPosition
RECURSIVE scanLines(_, _, _, _, _)
scanLines(lines, i, currentPosition, chs, content) ==
    IF i > Len(lines) THEN chs
    ELSE LET line == trim(lines[i])
             next == IF isChapterMarker(line)
                     THEN Append(closeChapter(chs, currentPosition, content),
                                 newChapter(line, currentPosition, content))
                     ELSE chs
         IN  scanLines(lines, i + 1, currentPosition + Len(lines[i]) + 1, next, content)

\* finishChapters without the single-chapter fallback
finishChapters_noFallback(chs, content) == closeChapter(chs, Len(content), content)

\* "If no chapters found, create a single chapter", else "Close last chapter"
finishChapters(chs, content) ==
    IF Len(chs) = 0
    THEN <<[title |-> "Full Document", startPosition |-> 0,
            endPosition |-> Len(content), wordCount |-> countWords(content)]>>
    ELSE closeChapter(chs, Len(content), content)

\* The chapter ids (generateId, Math.random) are left out: no chapter offset depends on them.
analyzeStructure(content) ==
    finishChapters(scanLines(splitLines(content), 1, 0, <<>>, content), content)

-----------------------------------------------------------------------------
(* JavaScript numbers: the integers, the integers plus one half, NaN,      *)
(* +Infinity and -Infinity.  Fin(v, h) is v, or v + 0.5 when h holds.        *)

Fin(v, h) == [k |-> "fin", v |-> v, half |-> h]
Num(n) == Fin(n, FALSE)
NaN == [k |-> "nan", v |-> 0, half |-> FALSE]
PosInf == [k |-> "inf", v |-> 0, half |-> FALSE]
NegInf == [k |-> "ninf", v |-> 0, half |-> FALSE]

IsFinite(x) == x.k = "fin"
IsInteger(x) == x.k = "fin" /\ ~x.half

\* a < b of JavaScript: false when either side is NaN
Less(a, b) ==
    /\ a.k # "nan" /\ b.k # "nan"
    /\ \/ a.k = "ninf" /\ b.k # "ninf"
       \/ a.k # "inf" /\ b.k = "inf"
       \/ /\ a.k = "fin" /\ b.k = "fin"
          /\ (a.v < b.v \/ (a.v = b.v /\ ~a.half /\ b.half))

\* a <= b of JavaScript
LessEq(a, b) == a.k # "nan" /\ b.k # "nan" /\ (a = b \/ Less(a, b))

\* x + n for an integer n
Plus(x, n) == IF x.k = "fin" THEN Fin(x.v + n, x.half) ELSE x

\* Math.floor: NaN and the infinities are returned as they are
MathFloor(x) == IF x.k = "fin" THEN Num(x.v) ELSE x

\* Math.max, Math.min: NaN when either argument is NaN
MathMax(a, b) == IF a.k = "nan" \/ b.k = "nan" THEN NaN ELSE IF Less(a, b) THEN b ELSE a
MathMin(a, b) == IF a.k = "nan" \/ b.k = "nan" THEN NaN ELSE IF Less(b, a) THEN b ELSE a

DecimalDigits == "0123456789"

\* String(n) for an integer n >= 0
RECURSIVE NatToString(_)
NatToString(n) ==
    IF n < 10 THEN CharAt(DecimalDigits, n + 1)
    ELSE NatToString(n \div 10) \o CharAt(DecimalDigits, (n % 10) + 1)

\* String(x), as a template literal formats a number
NumberToString(x) ==
    CASE x.k = "nan" -> "NaN"
      [] x.k = "inf" -> "Infinity"
      [] x.k = "ninf" -> "-Infinity"
      [] x.k = "fin" /\ ~x.half ->
            IF x.v < 0 THEN "-" \o NatToString(-x.v) ELSE NatToString(x.v)
      [] x.k = "fin" /\ x.half ->
            IF x.v < 0 THEN "-" \o NatToString(-x.v - 1) \o ".5"
            ELSE NatToString(x.v) \o ".5"

-----------------------------------------------------------------------------
(* contextBuilder: clampPage and trimText *)

clampPage(p, m) ==
    IF LessEq(m, Num(0)) THEN Num(1)
    ELSE MathMin(MathMax(Num(1), MathFloor(p)), m)

\* trimText that cuts at maxChars, leaving no room for the ellipsis
trimText_noEllipsisRoom(t, n) ==
    IF Len(t) <= n THEN t ELSE trim(slice(t, 0, n)) \o "..."

trimText(t, n) ==
    IF Len(t) <= n THEN t ELSE trim(slice(t, 0, Max(0, n - 3))) \o "..."

\* useDocumentProcessor's copy of trimText
trimTextForSummary(t, n) ==
    IF Len(t) <= n THEN t ELSE trim(slice(t, 0, Max(0, n - 3))) \o "..."

-----------------------------------------------------------------------------
(* contextBuilder: the page and chapter windows *)

\* A Document of the model is a record
\*   [title, type, content, totalPages, chapters, subject, keywords, pageOffsets, summary]
\* chapters: records [id, title, startPosition, endPosition, pageStart, pageEnd];
\* summary: [gist, sections], sections: records [chapterId, title, synopsis].
\* An absent optional field holds the value every test of the source treats like
\* undefined: "" for a string, 0 for totalPages, <<>> for an array, NoValue for
\* pageStart and pageEnd; an absent summary is [gist |-> "", sections |-> <<>>].
\* A function of the source that returns string | undefined returns "" for
\* undefined here: each caller only tests the result for truthiness.

VisibleMaxChars == 900
VisibleRadiusPages == 1
ChapterMaxChars == 600
ChapterMaxCharsExtended == 1400
GistMaxChars == 600
SynopsisMaxChars == 160
PreviewMaxChars == 2000
KeywordLimit == 6
ReferenceLimit == 3

\* array[x] for a JavaScript number x: undefined unless x is an index of the array
ElementAt(array, x) ==
    IF IsInteger(x) /\ x.v >= 0 /\ x.v < Len(array) THEN Num(array[x.v + 1]) ELSE NoValue

\* value ?? fallback, for a number
OrElse(value, fallback) == IF value = NoValue THEN fallback ELSE value

\* extractPdfRange without the trimText of the slice
extractPdfRange_untrimmed(doc, startPage, endPage, n) ==
    IF doc.content = "" \/ Len(doc.pageOffsets) = 0 THEN ""
    ELSE LET availablePages == Len(doc.pageOffsets) - 1
             safeStartPage == clampPage(startPage, Num(availablePages))
             safeEndPage == clampPage(endPage, Num(availablePages))
             startOffset == OrElse(ElementAt(doc.pageOffsets, Plus(safeStartPage, -1)), Num(0))
             endOffset == OrElse(ElementAt(doc.pageOffsets, safeEndPage), Num(Len(doc.content)))
         IN  IF availablePages <= 0 THEN ""
             ELSE IF Less(safeEndPage, safeStartPage) THEN ""
             ELSE IF LessEq(endOffset, startOffset) THEN ""
             ELSE slice(doc.content, startOffset.v, endOffset.v)

extractPdfRange(doc, startPage, endPage, n) ==
    IF doc.content = "" \/ Len(doc.pageOffsets) = 0 THEN ""
    ELSE LET availablePages == Len(doc.pageOffsets) - 1
             safeStartPage == clampPage(startPage, Num(availablePages))
             safeEndPage == clampPage(endPage, Num(availablePages))
             startOffset == OrElse(ElementAt(doc.pageOffsets, Plus(safeStartPage, -1)), Num(0))
             endOffset == OrElse(ElementAt(doc.pageOffsets, safeEndPage), Num(Len(doc.content)))
         IN  IF availablePages <= 0 THEN ""
             ELSE IF Less(safeEndPage, safeStartPage) THEN ""
             ELSE IF LessEq(endOffset, startOffset) THEN ""
             ELSE trimText(slice(doc.content, startOffset.v, endOffset.v), n)

\* Math.floor and Math.ceil of (position / Math.max(1, content.length)) * totalPages,
\* in exact arithmetic
approxStartPage(doc, ch) ==
    (ch.startPosition * doc.totalPages) \div Max(1, Len(doc.content))
approxEndPage(doc, ch) ==
    -((-(ch.endPosition * doc.totalPages)) \div Max(1, Len(doc.content)))

\* the predicate of chapters.find in matchChapterByPage
chapterHoldsPage(doc, ch, currentPage) ==
    IF ch.pageStart # NoValue /\ ch.pageEnd # NoValue
    THEN LessEq(ch.pageStart, currentPage) /\ LessEq(currentPage, ch.pageEnd)
    ELSE IF doc.content = "" \/ doc.totalPages = 0 THEN FALSE
    ELSE /\ LessEq(Num(approxStartPage(doc, ch)), currentPage)
         /\ LessEq(currentPage, Num(approxEndPage(doc, ch)))

\* the first element of array that satisfies Test, NoValue when there is none
FindFirst(array, Test(_)) ==
    LET hits == {i \in 1..Len(array) : Test(array[i])}
    IN  IF hits = {} THEN NoValue
        ELSE array[CHOOSE i \in hits : \A j \in hits : i <= j]

matchChapterByPage(doc, currentPage) ==
    IF Len(doc.chapters) = 0 THEN NoValue
    ELSE IF currentPage = NoValue THEN doc.chapters[1]
    ELSE LET holds(ch) == chapterHoldsPage(doc, ch, currentPage)
         IN  FindFirst(doc.chapters, holds)

findChapterSummary(doc, currentPage) ==
    IF Len(doc.summary.sections) = 0 THEN ""
    ELSE IF currentPage = NoValue THEN doc.summary.sections[1].synopsis
    ELSE LET matchedChapter == matchChapterByPage(doc, currentPage)
             ofChapter(section) == section.chapterId = matchedChapter.id
             found == FindFirst(doc.summary.sections, ofChapter)
         IN  IF matchedChapter = NoValue THEN ""
             ELSE IF found = NoValue THEN "" ELSE found.synopsis

\* chapterSummary ? trimText(chapterSummary, maxChars) : undefined
trimIfAny(t, n) == IF t = "" THEN "" ELSE trimText(t, n)

extractVisibleContext(doc, currentPage, radiusPages, n) ==
    IF doc.content = "" THEN trimIfAny(doc.summary.gist, n)
    ELSE LET availablePages == Len(doc.pageOffsets) - 1
             targetPage == clampPage(OrElse(currentPage, Num(1)), Num(availablePages))
             startPage == MathMax(Num(1), Plus(targetPage, -radiusPages))
             endPage == MathMin(Num(availablePages), Plus(targetPage, radiusPages))
             pdfSlice == IF doc.type = "pdf" /\ Len(doc.pageOffsets) > 0 /\ availablePages > 0
                         THEN extractPdfRange(doc, startPage, endPage, n)
                         ELSE ""
             chapter == matchChapterByPage(doc, currentPage)
         IN  IF pdfSlice # "" THEN pdfSlice
             ELSE IF currentPage = NoValue THEN trimText(doc.content, n)
             ELSE IF chapter = NoValue THEN trimText(doc.content, n)
             ELSE trimText(slice(doc.content, Max(0, chapter.startPosition),
                                 Min(Len(doc.content), chapter.endPosition)), n)

extractChapterSlice(doc, currentPage, n) ==
    IF doc.content = "" THEN trimIfAny(findChapterSummary(doc, currentPage), n)
    ELSE IF doc.type = "pdf" /\ Len(doc.pageOffsets) > 0
    THEN LET availablePages == Len(doc.pageOffsets) - 1
             targetPage == clampPage(OrElse(currentPage, Num(1)), Num(availablePages))
             pdfSlice == IF availablePages > 0
                         THEN extractPdfRange(doc, targetPage,
                                  MathMin(Num(availablePages), Plus(targetPage, 1)), n)
                         ELSE ""
         IN  IF pdfSlice # "" THEN pdfSlice
             ELSE trimIfAny(findChapterSummary(doc, currentPage), n)
    ELSE LET chapter == matchChapterByPage(doc, currentPage)
         IN  IF chapter = NoValue THEN ""
             ELSE trimText(slice(doc.content, chapter.startPosition, chapter.endPosition), n)

-----------------------------------------------------------------------------
(* contextBuilder: buildAssistantContext *)

\* array.join(separator)
RECURSIVE Join(_, _)
Join(array, separator) ==
    IF Len(array) = 0 THEN ""
    ELSE IF Len(array) = 1 THEN array[1]
    ELSE array[1] \o separator \o Join(Tail(array), separator)

\* array.slice(0, n)
Take(array, n) == SubSeq(array, 1, Min(n, Len(array)))

\* the bullet U+2022 of the source, one UTF-16 unit
Bullet == "*"

\* <<t>> when present holds, else no segment
SegmentIf(present, t) == IF present THEN <<t>> ELSE <<>>

headerSegments(opts) ==
    LET doc == opts.document
    IN  <<"DOCUMENT: \"" \o doc.title \o "\"">>
        \o SegmentIf(doc.subject # "", "SUBJECT: " \o doc.subject)
        \o SegmentIf(Len(doc.keywords) > 0,
                      "KEYWORDS: " \o Join(Take(doc.keywords, KeywordLimit), ", "))
        \o SegmentIf(doc.summary.gist # "",
                      "DOCUMENT GIST:\n" \o trimText(doc.summary.gist, GistMaxChars))
        \o SegmentIf(opts.currentPage # NoValue,
                      "CURRENT PAGE: " \o NumberToString(opts.currentPage))

\* the extended segments when the preview is appended whether or not there are summaries
extendedSegments_both(opts) ==
    LET doc == opts.document
        summaries ==
            Join([i \in 1..Len(doc.summary.sections) |->
                    Bullet \o " " \o doc.summary.sections[i].title \o ": "
                        \o trimText(doc.summary.sections[i].synopsis, SynopsisMaxChars)],
                 "\n")
    IN  SegmentIf(summaries # "", "CHAPTER SUMMARIES:\n" \o summaries)
        \o SegmentIf(doc.content # "",
                      "DOCUMENT PREVIEW:\n" \o trimText(doc.content, PreviewMaxChars))

extendedSegments(opts) ==
    LET doc == opts.document
        summaries ==
            Join([i \in 1..Len(doc.summary.sections) |->
                    Bullet \o " " \o doc.summary.sections[i].title \o ": "
                        \o trimText(doc.summary.sections[i].synopsis, SynopsisMaxChars)],
                 "\n")
    IN  IF summaries # "" THEN <<"CHAPTER SUMMARIES:\n" \o summaries>>
        ELSE SegmentIf(doc.content # "",
                       "DOCUMENT PREVIEW:\n" \o trimText(doc.content, PreviewMaxChars))

referenceSegments(opts) ==
    LET top == Take(opts.references, ReferenceLimit)
    IN  SegmentIf(Len(opts.references) > 0,
                  "REFERENCES:\n"
                      \o Join([i \in 1..Len(top) |-> NatToString(i) \o ". " \o top[i].text],
                              "\n"))

\* the segments when selectedText is tested without trim()
buildSegments_untrimmedTest(opts) ==
    LET doc == opts.document
        visibleContext ==
            IF opts.hasDocument
            THEN extractVisibleContext(doc, opts.currentPage, VisibleRadiusPages, VisibleMaxChars)
            ELSE ""
        chapterContext ==
            IF opts.hasDocument
            THEN extractChapterSlice(doc, opts.currentPage,
                     IF opts.useExtendedContext THEN ChapterMaxCharsExtended
                     ELSE ChapterMaxChars)
            ELSE ""
    IN  (IF opts.hasDocument THEN headerSegments(opts) ELSE <<>>)
        \o SegmentIf(visibleContext # "", "VISIBLE CONTEXT:\n" \o visibleContext)
        \o SegmentIf(opts.selectedText # "",
                      "FOCUSED TEXT:\n\"" \o trim(opts.selectedText) \o "\"")
        \o SegmentIf(chapterContext # "", "CHAPTER CONTEXT:\n" \o chapterContext)
        \o (IF opts.useExtendedContext /\ opts.hasDocument THEN extendedSegments(opts)
            ELSE <<>>)
        \o referenceSegments(opts)
        \o SegmentIf(trim(opts.extraContext) # "",
                      "ADDITIONAL CONTEXT:\n" \o trim(opts.extraContext))

\* the segments array when buildAssistantContext returns
buildSegments(opts) ==
    LET doc == opts.document
        visibleContext ==
            IF opts.hasDocument
            THEN extractVisibleContext(doc, opts.currentPage, VisibleRadiusPages, VisibleMaxChars)
            ELSE ""
        chapterContext ==
            IF opts.hasDocument
            THEN extractChapterSlice(doc, opts.currentPage,
                     IF opts.useExtendedContext THEN ChapterMaxCharsExtended
                     ELSE ChapterMaxChars)
            ELSE ""
    IN  (IF opts.hasDocument THEN headerSegments(opts) ELSE <<>>)
        \o SegmentIf(visibleContext # "", "VISIBLE CONTEXT:\n" \o visibleContext)
        \o SegmentIf(trim(opts.selectedText) # "",
                      "FOCUSED TEXT:\n\"" \o trim(opts.selectedText) \o "\"")
        \o SegmentIf(chapterContext # "", "CHAPTER CONTEXT:\n" \o chapterContext)
        \o (IF opts.useExtendedContext /\ opts.hasDocument THEN extendedSegments(opts)
            ELSE <<>>)
        \o referenceSegments(opts)
        \o SegmentIf(trim(opts.extraContext) # "",
                      "ADDITIONAL CONTEXT:\n" \o trim(opts.extraContext))

buildAssistantContext_untrimmed(opts) == Join(buildSegments(opts), "\n\n")

buildAssistantContext(opts) == trim(Join(buildSegments(opts), "\n\n"))

-----------------------------------------------------------------------------
(* api/gemini: callGemini *)

\* What the remote end does with a request:
\*   [kind |-> "reject", message]            fetch rejects with an Error
\*   [kind |-> "status", status, body]       a response that is not ok
\*   [kind |-> "json", parts, finishReason]  a 2xx response, the text parts of candidate 0
NoReply == [kind |-> "none"]

Returned(t) == [ok |-> TRUE, value |-> t]
Thrown(message) == [ok |-> FALSE, value |-> message]

\* the elements of array that satisfy Test, in order
Filter(array, Test(_)) == SelectSeq(array, Test)

\* the outcome of callGemini: the text it returns or the message of the Error it throws
callGemini(apiKey, reply) ==
    IF apiKey = "" THEN Thrown("Missing VITE_GEMINI_API_KEY")
    ELSE CASE reply.kind = "reject" -> Thrown(reply.message)
           [] reply.kind = "status" ->
                Thrown("Gemini API error: " \o NatToString(reply.status) \o " " \o reply.body)
           [] reply.kind = "json" ->
                LET nonBlank(t) == t # "" /\ trim(t) # ""
                    answer == trim(Join(Filter(reply.parts, nonBlank), "\n"))
                IN  IF answer = ""
                    THEN Thrown("Gemini API returned no text"
                                \o (IF reply.finishReason # ""
                                    THEN " (reason: " \o reply.finishReason \o ")" ELSE ""))
                    ELSE Returned(answer)

-----------------------------------------------------------------------------
(* assistant/useAssistant *)

buildPromptForMode(mode, query) ==
    CASE mode = "summary" -> "Summarize clearly and concisely: " \o query
      [] mode = "explanation" -> "Explain the following as if to a student: " \o query
      [] mode = "quiz" -> "Generate a few study questions about: " \o query
      [] mode = "concept" -> "Extract concepts and relationships relevant to: " \o query
      [] OTHER -> query

fallbackOfflineResponse(prompt, ctx, mode) ==
    "Temporary offline response:\n\n" \o prompt \o "\n\nBased on context length "
        \o NatToString(Len(ctx)) \o " characters."

\* the notice without the reason of the failure
generateOfflineNotice_silent(message) == "Note: Falling back to offline mode."

generateOfflineNotice(message) ==
    "Note: Falling back to offline mode ("
        \o (IF message = "" THEN "unknown error" ELSE message) \o ")."

IsTerminator(c) == c \in {".", "!", "?"}

\* context.split(/[.!?]+/).filter(s => s.trim().length > 30): the runs of characters
\* between the sentence ends whose trimmed length exceeds 30
longSentences(ctx) ==
    LET ends == {i \in 1..Len(ctx) : IsTerminator(CharAt(ctx, i))} \cup {Len(ctx) + 1}
        starts == {i \in 1..Len(ctx) : i \notin ends /\ (i = 1 \/ (i - 1) \in ends)}
        endOf(i) == LET later == {e \in ends : e > i}
                    IN  (CHOOSE e \in later : \A f \in later : e <= f) - 1
        long == {i \in starts : Len(trim(SubSeq(ctx, i, endOf(i)))) > 30}
    IN  [k \in 1..Cardinality(long) |->
            LET i == CHOOSE i \in long : Cardinality({j \in long : j < i}) = k - 1
            IN  SubSeq(ctx, i, endOf(i))]

\* context.indexOf(s), 0-based; s occurs in context
indexOf(ctx, t) ==
    (CHOOSE i \in 1..Len(ctx) :
        /\ SubSeq(ctx, i, i + Len(t) - 1) = t
        /\ \A j \in 1..(i - 1) : SubSeq(ctx, j, j + Len(t) - 1) # t) - 1

\* confidence is 0.4 + 0.2 * i, kept in tenths
extractReferencesFromText(ctx) ==
    LET top == Take(longSentences(ctx), 3)
    IN  [i \in 1..Len(top) |->
            [text |-> trim(top[i]), position |-> Max(0, indexOf(ctx, top[i])),
             confidenceTenths |-> 4 + 2 * (i - 1)]]

\* the options generate hands to buildAssistantContext
contextOptionsOf(args) ==
    [hasDocument |-> args.hasDocument, document |-> args.document,
     currentPage |-> args.currentPage, useExtendedContext |-> args.useExtendedContext,
     selectedText |-> args.selectedText, extraContext |-> args.contextText,
     references |-> <<>>]

\* the updater with the history as the closure of generate captured it, empty
appendResponse_stale(prev, ai) == <<ai>>

\* the updater that puts the response in front
appendResponse_first(prev, ai) == <<ai>> \o prev

\* the updater that records the response twice
appendResponse_twice(prev, ai) == prev \o <<ai, ai>>

\* the updater prev => [...prev, ai] handed to setResponses
appendResponse(prev, ai) == Append(prev, ai)

\* generate after the await when the failure is thrown on to the caller
generateSettled_rethrow(call, id, outcome) ==
    IF outcome.ok
    THEN [state |-> "resolved", recorded |-> TRUE,
          ai |-> [id |-> id, query |-> call.args.query, response |-> outcome.value,
                  context |-> call.context,
                  references |-> extractReferencesFromText(call.context)]]
    ELSE [state |-> "rejected", recorded |-> FALSE, ai |-> NoValue]

\* generate after the await: the rest of the try block, or the catch block.  The
\* id stands for the string generateId draws, the timestamp is left out.
generateSettled(call, id, outcome) ==
    IF outcome.ok
    THEN [state |-> "resolved", recorded |-> TRUE,
          ai |-> [id |-> id, query |-> call.args.query, response |-> outcome.value,
                  context |-> call.context,
                  references |-> extractReferencesFromText(call.context)]]
    ELSE [state |-> "resolved", recorded |-> TRUE,
          ai |-> [id |-> id, query |-> call.args.query,
                  response |-> generateOfflineNotice(outcome.value) \o "\n\n"
                                 \o fallbackOfflineResponse(
                                        buildPromptForMode(call.args.mode, call.args.query),
                                        call.context, call.args.mode),
                  context |-> call.context, references |-> <<>>]]

-----------------------------------------------------------------------------
(* useDocumentProcessor: extractConcepts *)

\* String.prototype.toLowerCase of the characters a to b of s (ASCII)
RECURSIVE toLowerRange(_, _, _)
toLowerRange(s, a, b) ==
    IF a > b THEN ""
    ELSE IF a = b THEN toLowerChar(CharAt(s, a))
    ELSE LET mid == (a + b) \div 2
         IN  toLowerRange(s, a, mid) \o toLowerRange(s, mid + 1, b)

toLowerCase(s) == toLowerRange(s, 1, Len(s))

WordChars ==
    DOMAIN LowerOf \cup LowerLetters
        \cup {"0", "1", "2", "3", "4", "5", "6", "7", "8", "9", "_"}

\* s.split(/\W+/) without the empty strings it may hold at either end: the runs
\* of word characters, in order
splitWords(s) == runsOutside(s, {i \in 1..Len(s) : CharAt(s, i) \notin WordChars})

\* text.substring(start, end).trim() around position; length / 2 is whole for the
\* length extractConcepts passes
extractContext(t, position, length) ==
    LET start == Max(0, position - (length \div 2))
        end == Min(Len(t), position + (length \div 2))
    IN  trim(slice(t, start, end))

\* importance without the cap of 10
importanceOf_uncapped(frequency) ==
    MathMax(Num(1), MathFloor(Fin(frequency \div 2, frequency % 2 = 1)))

\* Math.max(1, Math.min(10, Math.floor(frequency / 2)))
importanceOf(frequency) ==
    MathMax(Num(1), MathMin(Num(10), MathFloor(Fin(frequency \div 2, frequency % 2 = 1))))

\* the entries of a frequency Map over words, those in stopWords and those of
\* three characters or fewer left out, after .sort(([, a], [, b]) => b - a).
\* Array.prototype.sort is stable, so words of equal frequency keep the order in
\* which the Map first saw them.
sortedEntries(words, stopWords) ==
    LET indexed == [i \in 1..Len(words) |-> [term |-> words[i], at |-> i]]
        isFirst(e) ==
            /\ e.term \notin stopWords
            /\ Len(e.term) > 3
            /\ \A j \in 1..(e.at - 1) : words[j] # e.term
        firsts == SelectSeq(indexed, isFirst)
        entries == <<>> \o [k \in 1..Len(firsts) |->
                      [term |-> firsts[k].term, at |-> k,
                       frequency |-> Cardinality({j \in 1..Len(words) : words[j] = firsts[k].term})]]
        place(e) ==
            Cardinality({k \in 1..Len(entries) :
                \/ entries[k].frequency > e.frequency
                \/ entries[k].frequency = e.frequency /\ k < e.at})
    IN  [n \in 1..Len(entries) |->
            LET e == entries[CHOOSE k \in 1..Len(entries) : place(entries[k]) = n - 1]
            IN  [term |-> e.term, frequency |-> e.frequency]]

sortedWords(words) == sortedEntries(words, {})

\* the concepts, without the id generateId draws
extractConcepts(content) ==
    LET lower == toLowerCase(content)
        frequent(entry) == entry.frequency > 2
        kept == SelectSeq(Take(sortedWords(splitWords(lower)), 50), frequent)
    IN  [n \in 1..Len(kept) |->
            LET firstMention == indexOf(lower, kept[n].term)
            IN  [term |-> kept[n].term,
                 definition |-> "Key concept: " \o kept[n].term,
                 context |-> extractContext(content, firstMention, 200),
                 importance |-> importanceOf(kept[n].frequency),
                 firstMention |-> firstMention,
                 frequency |-> kept[n].frequency]]

-----------------------------------------------------------------------------
(* useDocumentProcessor: generateDocumentSummary *)

\* replace(/\s+/g, ' ') of the characters a to b of s
RECURSIVE collapseRange(_, _, _)
collapseRange(s, a, b) ==
    IF a > b THEN ""
    ELSE IF a = b
         THEN IF ~IsSpace(CharAt(s, a)) THEN CharAt(s, a)
              ELSE IF a = 1 \/ ~IsSpace(CharAt(s, a - 1)) THEN " " ELSE ""
    ELSE LET mid == (a + b) \div 2
         IN  collapseRange(s, a, mid) \o collapseRange(s, mid + 1, b)

\* content.split(/\n{2,}/).map(p => p.replace(/\s+/g, ' ').trim()).filter(Boolean)
splitIntoParagraphs(content) ==
    LET isBreak(i) == i >= 1 /\ i <= Len(content) /\ CharAt(content, i) = "\n"
        gaps == {i \in 1..Len(content) : isBreak(i) /\ (isBreak(i - 1) \/ isBreak(i + 1))}
        pieces == runsOutside(content, gaps)
        cleaned == [k \in 1..Len(pieces) |-> trim(collapseRange(pieces[k], 1, Len(pieces[k])))]
        nonEmpty(p) == p # ""
    IN  SelectSeq(cleaned, nonEmpty)

StopWords ==
    {"the", "and", "for", "with", "this", "that", "from", "your", "have", "about",
     "into", "been", "will", "their", "would", "there", "which", "when", "also",
     "these", "more", "using", "some", "such", "each"}

\* the matches of /[a-zA-Z][a-zA-Z-]{2,}/g in s, a lower-case string: of every
\* maximal run of letters and hyphens the part from its first letter on, when
\* that part has three characters or more
matchWords(s) ==
    LET isLetter(c) == c \in DOMAIN LowerOf \/ c \in LowerLetters
        inRun(i) == isLetter(CharAt(s, i)) \/ CharAt(s, i) = "-"
        gaps == {i \in 1..Len(s) :
                    \/ ~inRun(i)
                    \/ /\ CharAt(s, i) = "-"
                       /\ \A j \in 1..(i - 1) : (\A m \in j..(i - 1) : inRun(m))
                                                    => CharAt(s, j) = "-"}
        long(run) == Len(run) >= 3
    IN  SelectSeq(runsOutside(s, gaps), long)

extractKeywords(content, limit) ==
    LET sorted == Take(sortedEntries(matchWords(toLowerCase(content)), StopWords), limit)
    IN  [k \in 1..Len(sorted) |-> sorted[k].term]

buildGist(content, subject) ==
    LET topParagraphs == Join(Take(splitIntoParagraphs(content), 3), "\n\n")
        summary == trimTextForSummary(topParagraphs, 600)
    IN  IF subject # "" THEN subject \o ": " \o summary ELSE summary

buildChapterSummary(content, chapter) ==
    LET t == slice(content, chapter.startPosition, chapter.endPosition)
    IN  [chapterId |-> chapter.id,
         title |-> chapter.title,
         synopsis |-> trimTextForSummary(Join(Take(splitIntoParagraphs(t), 2), "\n\n"), 400),
         keywords |-> extractKeywords(t, 6)]

\* n in decimal, padded with zeros to width characters
Padded(n, width) ==
    LET digits == NatToString(n) IN Repeat("0", width - Len(digits)) \o digits

\* Date.prototype.toISOString for a time within the first minute after the epoch
toISOString(ms) ==
    "1970-01-01T00:00:" \o Padded(ms \div 1000, 2) \o "." \o Padded(ms % 1000, 3) \o "Z"

\* generateDocumentSummary at clock time; NoValue for undefined
generateDocumentSummary(content, chs, subject, time) ==
    IF trim(content) = "" THEN NoValue
    ELSE [gist |-> buildGist(content, subject),
          sections |-> [i \in 1..Len(chs) |-> buildChapterSummary(content, chs[i])],
          keywords |-> extractKeywords(content, 12),
          generatedAt |-> toISOString(time)]

-----------------------------------------------------------------------------
(* lib/parsers/pdf and the chapters of a Document *)

\* parsePdfContent, from the text of each page as pdf.js returns it (whitespace
\* runs collapsed, trimmed): the content and the metadata
parsePdfContent(pageTexts, fileName) ==
    LET parts == [i \in 1..Len(pageTexts) |->
                    IF pageTexts[i] # "" THEN pageTexts[i] \o "\n\n" ELSE ""]
        joined == trim(Join(parts, ""))
        placeholder == "# " \o fileName \o "\n\n[PDF loaded with "
                        \o NatToString(Len(pageTexts))
                        \o " pages. Text extraction produced no readable output.]"
    IN  [content |-> IF joined = "" THEN placeholder ELSE joined,
         totalPages |-> Len(pageTexts),
         pageOffsets |-> [i \in 1..(Len(pageTexts) + 1) |-> Len(Join(Take(parts, i - 1), ""))]]

\* the chapters of a Document: those of analyzeStructure, with the ids generateId drew
documentChapters(content) ==
    LET chs == analyzeStructure(content)
    IN  [i \in 1..Len(chs) |->
            [id |-> "ch" \o NatToString(i), title |-> chs[i].title,
             startPosition |-> chs[i].startPosition, endPosition |-> chs[i].endPosition,
             pageStart |-> NoValue, pageEnd |-> NoValue]]

-----------------------------------------------------------------------------
(* useDocumentProcessor: processDocument *)

\* A File of the model is [name, pages, text]: pages is what pdf.js reads from
\* it page by page, text what the EPUB or DOCX parser or file.text() returns.
\* The hash of a file is its name: the files of the model differ in content.
\* A fault names the one collaborator that fails during a call:
\*   "hash"       computeFileHash        "cacheRead"  getCachedDocument
\*   "blobRead"   getPdfBlob             "fileRead"   file.arrayBuffer / file.text /
\*   "parser"     the parser of the type              blob.arrayBuffer after the hash
\*   "cacheWrite" setCachedDocument      "blobWrite"  setPdfBlob

\* the position of the last "." of name, 0 when it has none
lastDot(name) ==
    LET dots == {i \in 1..Len(name) : CharAt(name, i) = "."}
    IN  IF dots = {} THEN 0 ELSE CHOOSE i \in dots : \A j \in dots : j <= i

getFileType(name) ==
    LET extension == toLowerCase(SubSeq(name, lastDot(name) + 1, Len(name)))
    IN  CASE extension = "pdf" -> "pdf"
          [] extension = "epub" -> "epub"
          [] extension \in {"doc", "docx"} -> "docx"
          [] OTHER -> "txt"

\* file.name.replace(/\.[^/.]+$/, '')
titleOf(name) ==
    LET dot == lastDot(name)
    IN  IF dot > 0 /\ dot < Len(name) /\ \A i \in dot..Len(name) : CharAt(name, i) # "/"
        THEN SubSeq(name, 1, dot - 1)
        ELSE name

\* s.replace(t, ''): s without the first occurrence of t
removeFirst(s, t) ==
    IF Contains(s, t)
    THEN LET at == indexOf(s, t)
         IN  SubSeq(s, 1, at) \o SubSeq(s, at + Len(t) + 1, Len(s))
    ELSE s

\* name.replace(/\.(docx?|doc)$/i, '')
removeDocSuffix(name) ==
    LET lower == toLowerCase(name)
        ends(t) == Len(lower) >= Len(t) /\ SubSeq(lower, Len(lower) - Len(t) + 1, Len(lower)) = t
    IN  IF ends(".docx") THEN SubSeq(name, 1, Len(name) - 5)
        ELSE IF ends(".doc") THEN SubSeq(name, 1, Len(name) - 4)
        ELSE name

Extracted(content, totalPages, pageOffsets, hasMetadata, hasFileData) ==
    [ok |-> TRUE, content |-> content, totalPages |-> totalPages,
     pageOffsets |-> pageOffsets, hasMetadata |-> hasMetadata, hasFileData |-> hasFileData]

ExtractionThrew == [ok |-> FALSE]

pdfFallback(name) ==
    "# " \o name \o "\n\n[PDF loaded. Text extraction unavailable in this session.]"

epubFallback(name) ==
    "# " \o removeFirst(name, ".epub")
        \o "\n\n[EPUB text extraction unavailable. Consider converting to PDF/TXT for richer AI assistance.]"

docxFallback(name) ==
    "# " \o removeDocSuffix(name)
        \o "\n\n[Text extraction unavailable. Upload a different copy or export as PDF/TXT to enable context-aware AI responses.]"

\* extractContent when a failure of the parser is thrown on
extractContent_rethrow(file, fault) ==
    CASE getFileType(file.name) = "pdf" ->
            IF fault \in {"fileRead", "parser"} THEN ExtractionThrew
            ELSE LET parsed == parsePdfContent(file.pages, file.name)
                 IN  Extracted(parsed.content, parsed.totalPages, parsed.pageOffsets, TRUE, TRUE)
      [] getFileType(file.name) = "epub" ->
            IF fault \in {"fileRead", "parser"} THEN ExtractionThrew
            ELSE IF trim(file.text) = ""
            THEN Extracted(epubFallback(file.name), 0, <<>>, FALSE, FALSE)
            ELSE Extracted(file.text, 0, <<>>, FALSE, FALSE)
      [] getFileType(file.name) = "docx" ->
            IF fault \in {"fileRead", "parser"} THEN ExtractionThrew
            ELSE IF trim(file.text) = ""
            THEN Extracted(docxFallback(file.name), 0, <<>>, FALSE, FALSE)
            ELSE Extracted(file.text, 0, <<>>, FALSE, FALSE)
      [] OTHER ->
            IF fault = "fileRead" THEN ExtractionThrew
            ELSE Extracted(file.text, 0, <<>>, FALSE, FALSE)

\* extractContent with extractPDFContent, extractEPUBContent and extractDOCXContent
extractContent(file, fault) ==
    CASE getFileType(file.name) = "pdf" ->
            IF fault = "fileRead" THEN ExtractionThrew
            ELSE IF fault = "parser"
            THEN Extracted(pdfFallback(file.name), 0, <<>>, TRUE, TRUE)
            ELSE LET parsed == parsePdfContent(file.pages, file.name)
                 IN  Extracted(parsed.content, parsed.totalPages, parsed.pageOffsets, TRUE, TRUE)
      [] getFileType(file.name) = "epub" ->
            IF fault \in {"fileRead", "parser"} \/ trim(file.text) = ""
            THEN Extracted(epubFallback(file.name), 0, <<>>, FALSE, FALSE)
            ELSE Extracted(file.text, 0, <<>>, FALSE, FALSE)
      [] getFileType(file.name) = "docx" ->
            IF fault \in {"fileRead", "parser"} \/ trim(file.text) = ""
            THEN Extracted(docxFallback(file.name), 0, <<>>, FALSE, FALSE)
            ELSE Extracted(file.text, 0, <<>>, FALSE, FALSE)
      [] OTHER ->
            IF fault = "fileRead" THEN ExtractionThrew
            ELSE Extracted(file.text, 0, <<>>, FALSE, FALSE)

\* the documents store with the entry of hash set to data
putDocument(cache, hash, data) ==
    {e \in cache : e.hash # hash} \cup {[hash |-> hash, data |-> data]}

Resolved(doc, cache, blobs, path) ==
    [state |-> "resolved", document |-> doc, docCache |-> cache, blobCache |-> blobs,
     path |-> path]

Rejected(cache, blobs) ==
    [state |-> "rejected", document |-> NoValue, docCache |-> cache, blobCache |-> blobs,
     path |-> "none"]

\* processDocument from "Extract content based on file type" on.  A Document of
\* the processor is [title, content, type, totalWords, totalPages, chapters,
\* concepts, summary, pageOffsets, hasFileData], summary NoValue when undefined.
processFresh(file, fault, cache, blobs, time) ==
    LET store(doc) ==
            IF fault = "cacheWrite" THEN Resolved(doc, cache, blobs, "processed")
            ELSE Resolved(doc,
                          putDocument(cache, file.name, [doc EXCEPT !.hasFileData = FALSE]),
                          IF doc.type = "pdf" /\ fault # "blobWrite"
                          THEN blobs \cup {file.name} ELSE blobs,
                          "processed")
        assemble(extraction, chs) ==
            store([title |-> titleOf(file.name),
                   content |-> extraction.content,
                   type |-> getFileType(file.name),
                   totalWords |-> countWords(extraction.content),
                   totalPages |-> extraction.totalPages,
                   chapters |-> chs,
                   concepts |-> extractConcepts(extraction.content),
                   summary |-> generateDocumentSummary(extraction.content, chs, "", time),
                   pageOffsets |-> extraction.pageOffsets,
                   hasFileData |-> extraction.hasFileData])
        analyze(extraction) ==
            IF ~extraction.ok THEN Rejected(cache, blobs)
            ELSE assemble(extraction, documentChapters(extraction.content))
    IN  analyze(extractContent(file, fault))

\* needsPdfUpgrade without the test for placeholder content
needsPdfUpgrade_placeholderKept(cached) ==
    /\ cached.type = "pdf"
    /\ (Len(cached.pageOffsets) <= 1 \/ cached.content = "")

\* needsPdfUpgrade: the cached document is a PDF without a page-offset table of
\* more than one entry, without content, or with placeholder content
needsPdfUpgrade(cached) ==
    /\ cached.type = "pdf"
    /\ (Len(cached.pageOffsets) <= 1 \/ cached.content = ""
            \/ HasPrefix(cached.content, "# "))

processDocument(file, fault, cache, blobs, time) ==
    LET hash == file.name
        hit == \E e \in cache : e.hash = hash
        needsSummary(cached) ==
            cached.summary = NoValue /\ cached.content # "" /\ Len(cached.chapters) > 0
        withSummary(cached) ==
            IF needsSummary(cached)
            THEN [cached EXCEPT !.summary =
                    generateDocumentSummary(cached.content, cached.chapters, "", time)]
            ELSE cached
        serve(cached, cachedDoc, cache1) ==
            IF ~needsPdfUpgrade(cached) /\ (cachedDoc.type # "pdf" \/ cachedDoc.hasFileData)
            THEN Resolved(cachedDoc, cache1, blobs, "cache")
            ELSE IF ~needsPdfUpgrade(cached) /\ fault = "blobRead" THEN Rejected(cache1, blobs)
            ELSE IF ~needsPdfUpgrade(cached) /\ hash \in blobs
            THEN IF fault = "fileRead" THEN Rejected(cache1, blobs)
                 ELSE Resolved([cachedDoc EXCEPT !.hasFileData = TRUE], cache1, blobs, "revived")
            ELSE processFresh(file, fault, cache1, blobs, time)
        upgrade(cached, cachedDoc) ==
            serve(cached, cachedDoc,
                  IF needsSummary(cached) /\ fault # "cacheWrite"
                  THEN putDocument(cache, hash, cachedDoc) ELSE cache)
        lookup(cached) == upgrade(cached, withSummary(cached))
    IN  IF fault \in {"hash", "cacheRead"} THEN Rejected(cache, blobs)
        ELSE IF ~hit THEN processFresh(file, fault, cache, blobs, time)
        ELSE lookup((CHOOSE e \in cache : e.hash = hash).data)

-----------------------------------------------------------------------------
(* hooks/useGlobalVoice: one module-level globalVoiceState shared by the    *)
(* hook instances, the audio elements and the utterances they create, and  *)
(* the asynchronous calls of speak and speakContinuous.  An audio element   *)
(* or utterance is named by its index in voice.audios or voice.utterances.  *)
(* currentUtteranceRef is written and never read, and the isSpeaking state  *)
(* of an instance is a copy of globalVoiceState.isSpeaking: both are left   *)
(* out.  voice.stopReturned records that stop() has returned and neither    *)
(* speak nor speakContinuous has gone past its guard since.                 *)

\* the components that call useGlobalVoice()
HookInstances == {"EnhancedAIPanel", "EnhancedDocumentReader"}

\* let globalVoiceState = { ... }
InitialGlobalVoiceState ==
    [isSpeaking |-> FALSE, currentUtterance |-> NoValue, currentAudio |-> NoValue,
     queue |-> <<>>, isProcessingQueue |-> FALSE]

\* the hook instances mounted, nothing created yet
InitialVoice ==
    [globalVoiceState |-> InitialGlobalVoiceState,
     currentAudioRef |-> [h \in HookInstances |-> NoValue],
     audios |-> <<>>, utterances |-> <<>>, calls |-> <<>>,
     stopReturned |-> FALSE]

\* a reference to the audio element or utterance of index i; null is NoValue
Ref(i) == [k |-> "object", v |-> i, half |-> FALSE]

\* audio.pause(): an element whose play() is still pending has it rejected
pause(w, a) ==
    IF a = NoValue THEN w
    ELSE [w EXCEPT !.audios[a.v].state =
             IF @ = "starting" THEN "aborted" ELSE IF @ = "playing" THEN "paused" ELSE @]

\* window.speechSynthesis.cancel(): every queued utterance is removed and
\* gets an error event
cancel(w) ==
    [w EXCEPT !.utterances =
        [u \in 1..Len(w.utterances) |->
            IF w.utterances[u].state \in {"pending", "speaking"}
            THEN [w.utterances[u] EXCEPT !.state = "canceled"]
            ELSE w.utterances[u]]]

stopSpeaking(w, env, h) ==
    LET w1 == pause(w, w.globalVoiceState.currentAudio)
        w2 == pause(w1, w1.currentAudioRef[h])
        w3 == IF env.isSupported THEN cancel(w2) ELSE w2
    IN  [w3 EXCEPT !.globalVoiceState =
                       [isSpeaking |-> FALSE,
                        currentUtterance |-> IF env.isSupported THEN NoValue
                                             ELSE @.currentUtterance,
                        currentAudio |-> NoValue,
                        queue |-> <<>>, isProcessingQueue |-> FALSE],
                   !.currentAudioRef[h] = NoValue]

\* the rest of speak, or of speakNext, once speakWithBrowser has resolved
browserSettled(w, c, ok) ==
    IF w.calls[c].kind = "speak" THEN [w EXCEPT !.calls[c].pc = "done"]
    ELSE IF ok /\ Len(w.globalVoiceState.queue) > 0 /\ w.globalVoiceState.isProcessingQueue
    THEN [w EXCEPT !.calls[c].pc = "timer"]
    ELSE [w EXCEPT !.globalVoiceState.isProcessingQueue = FALSE, !.calls[c].pc = "done"]

\* up to window.speechSynthesis.speak(utterance)
speakWithBrowser(w, env, c) ==
    IF ~env.isSupported THEN browserSettled(w, c, FALSE)
    ELSE LET w1 == cancel(w)
         IN  [w1 EXCEPT !.utterances = Append(@, [state |-> "pending", call |-> c]),
                        !.calls[c].pc = "browser"]

\* the rest of speak, or of speakNext, once speakWithGroq or
\* speakWithElevenLabs has returned ok
remoteSettled(w, env, c, ok) ==
    IF w.calls[c].kind = "speak"
    THEN IF ok THEN [w EXCEPT !.calls[c].pc = "done"]
         ELSE IF w.calls[c].via = "groq" /\ env.hasElevenLabs
         THEN [w EXCEPT !.calls[c].pc = "request", !.calls[c].via = "elevenlabs"]
         ELSE speakWithBrowser(w, env, c)
    ELSE IF ~ok THEN speakWithBrowser(w, env, c)
    ELSE IF Len(w.globalVoiceState.queue) > 0 /\ w.globalVoiceState.isProcessingQueue
    THEN [w EXCEPT !.calls[c].pc = "timer"]
    ELSE [w EXCEPT !.globalVoiceState.isProcessingQueue = FALSE, !.calls[c].pc = "done"]

\* up to audio.play()
playRemoteAudio(w, c) ==
    [w EXCEPT !.audios = Append(@, [state |-> "starting", call |-> c]),
              !.currentAudioRef[w.calls[c].hook] = Ref(Len(w.audios) + 1),
              !.globalVoiceState.currentAudio = Ref(Len(w.audios) + 1),
              !.calls[c].pc = "audio"]

\* audio.onloadeddata
audioLoaded(w, a) ==
    [w EXCEPT !.audios[a].state = "playing", !.globalVoiceState.isSpeaking = TRUE]

\* audio.onended (ok) and audio.onerror (not ok)
audioFinished(w, env, a, ok) ==
    LET c == w.audios[a].call
        w1 == [w EXCEPT !.audios[a].state = "finished",
                        !.globalVoiceState.isSpeaking = FALSE,
                        !.globalVoiceState.currentAudio = NoValue,
                        !.currentAudioRef[w.calls[c].hook] = NoValue]
    IN  remoteSettled(w1, env, c, ok)

\* audio.play().catch(() => resolve(false))
playRejected(w, env, a) ==
    remoteSettled([w EXCEPT !.audios[a].state = "finished"], env, w.audios[a].call, FALSE)

\* utterance.onstart
utteranceStarted(w, u) ==
    [w EXCEPT !.utterances[u].state = "speaking",
              !.globalVoiceState.isSpeaking = TRUE,
              !.globalVoiceState.currentUtterance = Ref(u)]

\* utterance.onend (ok) and utterance.onerror (not ok)
utteranceFinished(w, u, ok) ==
    LET c == w.utterances[u].call
        w1 == [w EXCEPT !.utterances[u].state = "finished",
                        !.globalVoiceState.isSpeaking = FALSE,
                        !.globalVoiceState.currentUtterance = NoValue]
    IN  browserSettled(w1, c, ok)

\* speak, up to its first await; a call that returns at once changes nothing
speak(w, env, h, enabled, t) ==
    LET c == Len(w.calls) + 1
        w1 == stopSpeaking(
                  [w EXCEPT !.calls =
                      Append(@, [hook |-> h, kind |-> "speak", pc |-> "done", via |-> "none"]),
                            !.stopReturned = FALSE],
                  env, h)
    IN  IF ~enabled \/ trim(t) = "" THEN w
        ELSE IF env.hasGroqTts
        THEN [w1 EXCEPT !.calls[c].pc = "request", !.calls[c].via = "groq"]
        ELSE IF env.hasElevenLabs
        THEN [w1 EXCEPT !.calls[c].pc = "request", !.calls[c].via = "elevenlabs"]
        ELSE speakWithBrowser(w1, env, c)

\* speakNext, up to its first await
speakNext(w, env, c) ==
    IF Len(w.globalVoiceState.queue) = 0
    THEN [w EXCEPT !.globalVoiceState.isProcessingQueue = FALSE, !.calls[c].pc = "done"]
    ELSE LET w1 == [w EXCEPT !.globalVoiceState.queue = Tail(@)]
         IN  IF env.hasElevenLabs
             THEN [w1 EXCEPT !.calls[c].pc = "request", !.calls[c].via = "elevenlabs"]
             ELSE speakWithBrowser(w1, env, c)

\* speakContinuous, up to its first await; a call that returns at once
\* changes nothing
speakContinuous(w, env, h, enabled, paragraphs) ==
    LET c == Len(w.calls) + 1
        w1 == stopSpeaking(
                  [w EXCEPT !.calls =
                      Append(@, [hook |-> h, kind |-> "continuous", pc |-> "done", via |-> "none"]),
                            !.stopReturned = FALSE],
                  env, h)
        w2 == [w1 EXCEPT !.globalVoiceState.queue = paragraphs,
                         !.globalVoiceState.isProcessingQueue = TRUE]
    IN  IF ~enabled \/ Len(paragraphs) = 0 THEN w ELSE speakNext(w2, env, c)

-----------------------------------------------------------------------------
(* hooks/useVoiceConversation: the Escape shortcut.  The hook keeps its own  *)
(* isSpeaking state and its own currentAudioRef; the responses are spoken    *)
(* by useGlobalVoice.speak (EnhancedAIPanel.handleVoiceMessage).  Its        *)
(* speakWithElevenLabs is neither returned nor called, so currentAudioRef    *)
(* stays null and is left out.                                               *)

\* useState<VoiceConversationState>({ ..., isSpeaking: false, ... })
InitialConversation == [isListening |-> FALSE, isProcessing |-> FALSE, isSpeaking |-> FALSE]

\* useVoiceConversation's stopSpeaking: speechSynthesis.cancel() and
\* setState(isSpeaking: false)
conversationStopSpeaking(w, env) == IF env.isSupported THEN cancel(w) ELSE w

\* handleKeyDown for event.key === 'Escape': the voice state it leaves
handleEscape(w, env, conv) ==
    IF conv.isSpeaking THEN conversationStopSpeaking(w, env) ELSE w

-----------------------------------------------------------------------------
(* The calls of clampPage *)

PageValues ==
    {Fin(v, h) : v \in (-2)..(MaxPages + 2), h \in BOOLEAN}
        \cup {Num(999), NaN, PosInf, NegInf}

ClampInit ==
    /\ page \in PageValues
    /\ maxPage \in {Num(m) : m \in 0..MaxPages}
    /\ clamped = NoValue
    /\ Idle({"structure", "trim", "context", "assistant", "concepts", "summary", "process", "voice"})

ClampPage ==
    /\ clamped = NoValue
    /\ clamped' = clampPage(page, maxPage)
    /\ UNCHANGED <<page, maxPage, structVars, trimVars, ctxVars, assistantVars, conceptVars, summaryVars, processVars, voiceVars>>

-----------------------------------------------------------------------------
(* The calls of trimText and trimTextForSummary *)

TextAlphabet == {"a", " ", "\n"}

RECURSIVE StringsUpTo(_)
StringsUpTo(n) ==
    IF n = 0 THEN {""}
    ELSE LET shorter == StringsUpTo(n - 1)
         IN  shorter \cup {s \o c : s \in shorter, c \in TextAlphabet}

TrimInit ==
    /\ text \in StringsUpTo(MaxTextLen)
    /\ maxChars \in 0..MaxBudget
    /\ trimmed = ""
    /\ trimOp = "none"
    /\ Idle({"structure", "clamp", "context", "assistant", "concepts", "summary", "process", "voice"})

TrimText ==
    /\ trimOp = "none"
    /\ trimmed' = trimText(text, maxChars)
    /\ trimOp' = "trimText"
    /\ UNCHANGED <<text, maxChars, structVars, clampVars, ctxVars, assistantVars, conceptVars, summaryVars, processVars, voiceVars>>

TrimTextForSummary ==
    /\ trimOp = "none"
    /\ trimmed' = trimTextForSummary(text, maxChars)
    /\ trimOp' = "trimTextForSummary"
    /\ UNCHANGED <<text, maxChars, structVars, clampVars, ctxVars, assistantVars, conceptVars, summaryVars, processVars, voiceVars>>

-----------------------------------------------------------------------------
(* The documents and options handed to buildAssistantContext *)

\* a page or paragraph of n characters: words of two letters, no whitespace at its ends
Prose(n) == IF n <= 0 THEN "" ELSE SubSeq(Repeat("ab ", (n \div 3) + 1), 1, n - 1) \o "z"

NoSummary == [gist |-> "", sections |-> <<>>]

\* a summary with a gist of gistLen characters and a synopsis of synopsisLen per chapter
summaryOf(chs, gistLen, synopsisLen) ==
    [gist |-> Prose(gistLen),
     sections |-> [i \in 1..Len(chs) |->
                     [chapterId |-> chs[i].id, title |-> chs[i].title,
                      synopsis |-> Prose(synopsisLen)]]]

\* the page texts of the PDF files
PdfFiles ==
    { [i \in 1..10 |-> Prose(98)],
      [i \in 1..3 |-> Prose(448)],
      [i \in 1..3 |-> Prose(798)],
      [i \in 1..4 |-> ""],
      <<"Chapter 1 " \o Prose(50), "", "", "", "Chapter 2 " \o Prose(50)>>,
      <<Prose(98)>> }

\* a PDF Document as processDocument builds it, its summary given
pdfDocument(pageTexts, withSummary) ==
    LET parsed == parsePdfContent(pageTexts, "book.pdf")
        chs == documentChapters(parsed.content)
    IN  [title |-> "book", type |-> "pdf", content |-> parsed.content,
         totalPages |-> parsed.totalPages, chapters |-> chs,
         subject |-> "", keywords |-> <<>>, pageOffsets |-> parsed.pageOffsets,
         summary |-> IF withSummary THEN summaryOf(chs, 650, 200) ELSE NoSummary]

ChapteredText ==
    "Intro zz\nChapter 1\n" \o Prose(650) \o "\nChapter 2\n" \o Prose(30)

\* a Document without a page-offset table
plainDocument(type, content, totalPages, summary) ==
    [title |-> "notes", type |-> type, content |-> content,
     totalPages |-> totalPages, chapters |-> documentChapters(content),
     subject |-> "Physics", keywords |-> <<"k1", "k2", "k3", "k4", "k5", "k6", "k7">>,
     pageOffsets |-> <<>>, summary |-> summary]

\* ChapteredText with the page bounds of its chapters set
pagedDocument ==
    LET doc == plainDocument("epub", ChapteredText, 4, NoSummary)
    IN  [doc EXCEPT !.chapters =
            [i \in 1..Len(doc.chapters) |->
                [doc.chapters[i] EXCEPT !.pageStart = Num(2 * i - 1), !.pageEnd = Num(2 * i)]]]

Documents ==
    { pdfDocument(f, b) : f \in PdfFiles, b \in BOOLEAN }
    \cup { plainDocument("txt", c, 0, NoSummary) :
             c \in {"", Prose(40), Prose(950), Prose(2050), ChapteredText} }
    \cup { plainDocument("txt", c, 0, summaryOf(documentChapters(c), 650, 200)) :
             c \in {Prose(950), ChapteredText} }
    \cup { plainDocument("docx", ChapteredText, 4, summaryOf(documentChapters(ChapteredText), 40, 100)),
           plainDocument("txt", "", 0, summaryOf(documentChapters(""), 950, 1500)),
           plainDocument("txt", "", 3, summaryOf(documentChapters(""), 950, 700)),
           pagedDocument }

CurrentPages ==
    { NoValue, Num(-1), Num(0), Num(1), Num(2), Fin(2, TRUE), Num(3), Num(5), Num(10),
      Num(11), NaN, PosInf, NegInf }

References ==
    <<[text |-> "first reference"], [text |-> "second reference"],
      [text |-> "third reference"], [text |-> "fourth reference"]>>

\* selectedText, extraContext and references: absent, blank, or given
Extras ==
    { [selectedText |-> "", extraContext |-> "", references |-> <<>>],
      [selectedText |-> "  \n", extraContext |-> " ", references |-> <<>>],
      [selectedText |-> " picked text\n", extraContext |-> "a note ", references |-> References],
      [selectedText |-> "", extraContext |-> "",
       references |-> <<[text |-> Prose(2050)]>> \o Take(References, 2)] }

ContextOptions ==
    { [hasDocument |-> TRUE, document |-> d, currentPage |-> p, useExtendedContext |-> x,
       selectedText |-> e.selectedText, extraContext |-> e.extraContext,
       references |-> e.references] :
         d \in Documents, p \in CurrentPages, x \in BOOLEAN, e \in Extras }
    \cup
    { [hasDocument |-> FALSE, document |-> NoValue, currentPage |-> p, useExtendedContext |-> x,
       selectedText |-> e.selectedText, extraContext |-> e.extraContext,
       references |-> e.references] :
         p \in {NoValue, Num(1)}, x \in BOOLEAN, e \in Extras }

ContextInit ==
    /\ ctxOpts \in ContextOptions
    /\ segments = <<>>
    /\ context = ""
    /\ built = FALSE
    /\ Idle({"structure", "clamp", "trim", "assistant", "concepts", "summary", "process", "voice"})

BuildAssistantContext ==
    /\ ~built
    /\ segments' = buildSegments(ctxOpts)
    /\ context' = buildAssistantContext(ctxOpts)
    /\ built' = TRUE
    /\ UNCHANGED <<ctxOpts, structVars, clampVars, trimVars, assistantVars, conceptVars, summaryVars, processVars, voiceVars>>

-----------------------------------------------------------------------------
(* The calls of useAssistant *)

StudyNotes ==
    "Chapter 1\nThe study of motion begins with a careful account of position. Why?"

GenerateArgs ==
    { [query |-> "What is this?", mode |-> "chat", hasDocument |-> FALSE,
       document |-> NoValue, currentPage |-> NoValue, useExtendedContext |-> FALSE,
       selectedText |-> "", contextText |-> ""],
      [query |-> "motion", mode |-> "summary", hasDocument |-> TRUE,
       document |-> plainDocument("txt", StudyNotes, 0, NoSummary),
       currentPage |-> Num(1), useExtendedContext |-> FALSE,
       selectedText |-> "position", contextText |-> ""],
      [query |-> "page two", mode |-> "quiz", hasDocument |-> TRUE,
       document |-> pdfDocument(<<Prose(40), Prose(40)>>, FALSE),
       currentPage |-> Num(2), useExtendedContext |-> TRUE,
       selectedText |-> "", contextText |-> "heard by voice"] }

RemoteReplies ==
    { [kind |-> "reject", message |-> "Failed to fetch"],
      [kind |-> "reject", message |-> ""],
      [kind |-> "status", status |-> 429, body |-> "quota exceeded"],
      [kind |-> "json", parts |-> <<>>, finishReason |-> ""],
      [kind |-> "json", parts |-> <<"  ", "">>, finishReason |-> "SAFETY"],
      [kind |-> "json", parts |-> <<"Motion is change of position.", "", " It has a rate. ">>,
       finishReason |-> "STOP"] }

AssistantInit ==
    /\ geminiApiKey \in {"", "key"}
    /\ isLoading = FALSE
    /\ responses = <<>>
    /\ calls = <<>>
    /\ events = [settled |-> <<>>, cleared |-> {}]
    /\ Idle({"structure", "clamp", "trim", "context", "concepts", "summary", "process", "voice"})

\* generate up to the await of callGemini
GenerateStart ==
    \E args \in GenerateArgs :
        /\ Len(calls) < MaxCalls
        /\ isLoading' = TRUE
        /\ calls' = Append(calls,
                [args |-> args, context |-> buildAssistantContext(contextOptionsOf(args)),
                 state |-> "awaiting", reply |-> NoReply, result |-> NoValue])
        /\ UNCHANGED <<geminiApiKey, responses, events, structVars, clampVars, trimVars, ctxVars, conceptVars, summaryVars, processVars, voiceVars>>

\* callGemini settles and generate runs to its end: the try or the catch block,
\* then finally
GenerateSettle ==
    \E c \in 1..Len(calls) :
        \E reply \in (IF geminiApiKey = "" THEN {NoReply} ELSE RemoteReplies) :
            LET done == generateSettled(calls[c], "r" \o NatToString(c),
                                        callGemini(geminiApiKey, reply))
            IN  /\ calls[c].state = "awaiting"
                /\ responses' = IF done.recorded THEN appendResponse(responses, done.ai)
                                ELSE responses
                /\ isLoading' = FALSE
                /\ calls' = [calls EXCEPT ![c] =
                               [@ EXCEPT !.state = done.state, !.reply = reply,
                                         !.result = done.ai]]
                /\ events' = [events EXCEPT !.settled = Append(@, c)]
                /\ UNCHANGED <<geminiApiKey, structVars, clampVars, trimVars, ctxVars, conceptVars, summaryVars, processVars, voiceVars>>

\* clear
Clear ==
    /\ responses' = <<>>
    /\ events' = [settled |-> <<>>, cleared |-> 1..Len(calls)]
    /\ UNCHANGED <<geminiApiKey, isLoading, calls, structVars, clampVars, trimVars, ctxVars, conceptVars, summaryVars, processVars, voiceVars>>

-----------------------------------------------------------------------------
(* The calls of extractConcepts *)

ConceptContents ==
    { (IF lead THEN "Massive stars. " ELSE "")
        \o Repeat("Energy ", energy) \o Repeat("mass, ", mass) \o Repeat("ion ", ion)
        \o Repeat("wave_2 energy\n", wave) :
      lead \in BOOLEAN, energy \in 0..(MaxFrequency - 2), mass \in {0, 3, 5},
      ion \in {0, 4}, wave \in 0..2 }

ConceptsInit ==
    /\ conceptContent \in ConceptContents
    /\ concepts = <<>>
    /\ extracted = FALSE
    /\ Idle({"structure", "clamp", "trim", "context", "assistant", "summary", "process", "voice"})

ExtractConcepts ==
    /\ ~extracted
    /\ concepts' = extractConcepts(conceptContent)
    /\ extracted' = TRUE
    /\ UNCHANGED <<conceptContent, structVars, clampVars, trimVars, ctxVars, assistantVars, summaryVars, processVars, voiceVars>>

-----------------------------------------------------------------------------
(* The calls of generateDocumentSummary *)

SummaryTexts ==
    { "", " \n",
      "Chapter 1\nEnergy moves the Wave-front.\n\nThe energy stays with this wave.\n\n\n"
        \o "Chapter 2\nWaves carry energy; co-moving -frames do not.\n\nMore notes.\n\nLast.",
      Repeat("Electromagnetic induction-heating. ", 12) \o "\n\n"
        \o Repeat("Thermodynamic equilibrium with the reservoir.\n", 9) }

SummaryInit ==
    /\ \E content \in SummaryTexts, subject \in {"", "Physics"} :
          summaryInput = [content |-> content, chapters |-> documentChapters(content),
                          subject |-> subject]
    /\ now \in 0..MaxTime
    /\ summaryResults = <<>>
    /\ Idle({"structure", "clamp", "trim", "context", "assistant", "concepts", "process", "voice"})

GenerateDocumentSummary ==
    /\ Len(summaryResults) < MaxSummaries
    /\ summaryResults' = Append(summaryResults,
            generateDocumentSummary(summaryInput.content, summaryInput.chapters,
                                    summaryInput.subject, now))
    /\ UNCHANGED <<summaryInput, now, structVars, clampVars, trimVars, ctxVars,
                   assistantVars, conceptVars, processVars, voiceVars>>

\* a millisecond passes
Tick ==
    /\ now < MaxTime
    /\ now' = now + 1
    /\ UNCHANGED <<summaryInput, summaryResults, structVars, clampVars, trimVars, ctxVars,
                   assistantVars, conceptVars, processVars, voiceVars>>

-----------------------------------------------------------------------------
(* The calls of processDocument *)

Files ==
    { [name |-> "book.pdf", pages |-> <<"Chapter 1 energy", "", "energy energy">>, text |-> ""],
      [name |-> "scan.pdf", pages |-> <<"", "">>, text |-> ""],
      [name |-> "1. Intro.epub", pages |-> <<>>, text |-> "Chapter 1\nalpha\nChapter 2\nbeta"],
      [name |-> "BLANK.EPUB", pages |-> <<>>, text |-> " \n"],
      [name |-> "Chapter 3.docx", pages |-> <<>>, text |-> "prose only"],
      [name |-> "old.DOC", pages |-> <<>>, text |-> ""],
      [name |-> "notes.txt", pages |-> <<>>, text |-> "7 wonders\nof the world"],
      [name |-> "README", pages |-> <<>>, text |-> " \n"] }

Faults ==
    {"none", "hash", "cacheRead", "blobRead", "fileRead", "parser", "cacheWrite", "blobWrite"}

ProcessInit ==
    /\ upload = NoUpload
    /\ uploads = 0
    /\ isProcessing = FALSE
    /\ docCache = {}
    /\ blobCache = {}
    /\ Idle({"structure", "clamp", "trim", "context", "assistant", "concepts", "summary", "voice"})

\* processDocument up to its first await
ProcessStart ==
    \E file \in Files, fault \in Faults :
        /\ uploads < MaxUploads
        /\ upload.state # "running"
        /\ upload' = [file |-> file, fault |-> fault, state |-> "running",
                      document |-> NoValue, path |-> "none"]
        /\ uploads' = uploads + 1
        /\ isProcessing' = TRUE
        /\ UNCHANGED <<docCache, blobCache, structVars, clampVars, trimVars, ctxVars,
                       assistantVars, conceptVars, summaryVars, voiceVars>>

\* processDocument from its first await to the end of its finally block
ProcessSettle ==
    /\ upload.state = "running"
    /\ \E done \in {processDocument(upload.file, upload.fault, docCache, blobCache, now)} :
           /\ upload' = [upload EXCEPT !.state = done.state, !.document = done.document,
                                        !.path = done.path]
           /\ docCache' = done.docCache
           /\ blobCache' = done.blobCache
    /\ isProcessing' = FALSE
    /\ UNCHANGED <<uploads, structVars, clampVars, trimVars, ctxVars,
                   assistantVars, conceptVars, summaryVars, voiceVars>>

-----------------------------------------------------------------------------
(* The calls and events of useGlobalVoice *)

\* the texts handed to speak
SpokenTexts == {"  \n", "Newton's first law."}

\* the paragraph lists handed to speakContinuous
ParagraphLists == {<<>>, <<"One.", "Two.">>}

VoiceInit ==
    /\ voice = InitialVoice
    /\ providers \in [hasGroqTts : BOOLEAN, hasElevenLabs : BOOLEAN, isSupported : BOOLEAN]
    /\ conversation = InitialConversation
    /\ keysDown = {}
    /\ Idle({"structure", "clamp", "trim", "context", "assistant", "concepts", "summary", "process"})

\* a component calls speak(text)
Speak ==
    /\ Len(voice.calls) < MaxSpeaks
    /\ \E h \in HookInstances, enabled \in BOOLEAN, t \in SpokenTexts :
          voice' = speak(voice, providers, h, enabled, t)
    /\ UNCHANGED <<providers, conversation, keysDown, structVars, clampVars, trimVars, ctxVars, assistantVars, conceptVars, summaryVars, processVars>>

\* EnhancedDocumentReader calls speakContinuous(paragraphs)
SpeakContinuous ==
    /\ Len(voice.calls) < MaxSpeaks
    /\ \E enabled \in BOOLEAN, paragraphs \in ParagraphLists :
          voice' = speakContinuous(voice, providers, "EnhancedDocumentReader", enabled, paragraphs)
    /\ UNCHANGED <<providers, conversation, keysDown, structVars, clampVars, trimVars, ctxVars, assistantVars, conceptVars, summaryVars, processVars>>

\* a component calls stop()
Stop ==
    /\ \E h \in HookInstances :
          voice' = [stopSpeaking(voice, providers, h) EXCEPT !.stopReturned = TRUE]
    /\ UNCHANGED <<providers, conversation, keysDown, structVars, clampVars, trimVars, ctxVars, assistantVars, conceptVars, summaryVars, processVars>>

\* callGroqTTS or callElevenLabsTTS settles: with an audio buffer, or by throwing
TtsSettle ==
    /\ \E c \in 1..Len(voice.calls), ok \in BOOLEAN :
          /\ voice.calls[c].pc = "request"
          /\ voice' = IF ok THEN playRemoteAudio(voice, c)
                      ELSE remoteSettled(voice, providers, c, FALSE)
    /\ UNCHANGED <<providers, conversation, keysDown, structVars, clampVars, trimVars, ctxVars, assistantVars, conceptVars, summaryVars, processVars>>

\* the loadeddata event of an audio element
AudioLoaded ==
    /\ \E a \in 1..Len(voice.audios) :
          /\ voice.audios[a].state = "starting"
          /\ voice' = audioLoaded(voice, a)
    /\ UNCHANGED <<providers, conversation, keysDown, structVars, clampVars, trimVars, ctxVars, assistantVars, conceptVars, summaryVars, processVars>>

\* the ended or the error event of an audio element
AudioFinished ==
    /\ \E a \in 1..Len(voice.audios), ok \in BOOLEAN :
          /\ voice.audios[a].state = "playing" \/ (~ok /\ voice.audios[a].state = "starting")
          /\ voice' = audioFinished(voice, providers, a, ok)
    /\ UNCHANGED <<providers, conversation, keysDown, structVars, clampVars, trimVars, ctxVars, assistantVars, conceptVars, summaryVars, processVars>>

\* the promise of audio.play() rejects: the element was paused before it
\* started, or the browser refused to play it
PlayRejected ==
    /\ \E a \in 1..Len(voice.audios) :
          /\ voice.audios[a].state \in {"starting", "aborted"}
          /\ voice' = playRejected(voice, providers, a)
    /\ UNCHANGED <<providers, conversation, keysDown, structVars, clampVars, trimVars, ctxVars, assistantVars, conceptVars, summaryVars, processVars>>

\* the browser starts the next queued utterance; it speaks one at a time
UtteranceStarted ==
    /\ \E u \in 1..Len(voice.utterances) :
          /\ voice.utterances[u].state = "pending"
          /\ \A v \in 1..Len(voice.utterances) : voice.utterances[v].state # "speaking"
          /\ voice' = utteranceStarted(voice, u)
    /\ UNCHANGED <<providers, conversation, keysDown, structVars, clampVars, trimVars, ctxVars, assistantVars, conceptVars, summaryVars, processVars>>

\* the end event of the utterance spoken, or the error event of one that
\* failed or was cancelled
UtteranceFinished ==
    /\ \E u \in 1..Len(voice.utterances), ok \in BOOLEAN :
          /\ voice.utterances[u].state = "speaking" \/ (~ok /\ voice.utterances[u].state = "canceled")
          /\ voice' = utteranceFinished(voice, u, ok)
    /\ UNCHANGED <<providers, conversation, keysDown, structVars, clampVars, trimVars, ctxVars, assistantVars, conceptVars, summaryVars, processVars>>

\* setTimeout(speakNext, ...) fires
TimerFires ==
    /\ \E c \in 1..Len(voice.calls) :
          /\ voice.calls[c].pc = "timer"
          /\ voice' = speakNext(voice, providers, c)
    /\ UNCHANGED <<providers, conversation, keysDown, structVars, clampVars, trimVars, ctxVars, assistantVars, conceptVars, summaryVars, processVars>>

\* an Escape keydown reaches useVoiceConversation's handleKeyDown
EscapeKeyDown ==
    /\ "Escape" \notin keysDown
    /\ keysDown' = keysDown \cup {"Escape"}
    /\ voice' = handleEscape(voice, providers, conversation)
    /\ conversation' = [conversation EXCEPT !.isSpeaking = FALSE]
    /\ UNCHANGED <<providers, structVars, clampVars, trimVars, ctxVars, assistantVars, conceptVars, summaryVars, processVars>>

\* the Escape key is released; handleKeyUp does nothing for it
EscapeKeyUp ==
    /\ "Escape" \in keysDown
    /\ keysDown' = keysDown \ {"Escape"}
    /\ UNCHANGED <<voice, providers, conversation, structVars, clampVars, trimVars, ctxVars, assistantVars, conceptVars, summaryVars, processVars>>

-----------------------------------------------------------------------------
(* The documents of the structuring specification *)

LongUnmarked == "CHAPTER" \o Repeat("x", MarkerMaxLen - 7)
LongMarked == "Chapter" \o Repeat("y", MarkerMaxLen - 8)

LineSet ==
    { "Chapter 1", "  chapter two\r", "2. Intro", "12 apples", "foo foo", "",
      "7", "x1.", LongUnmarked, LongMarked }

Contents == { JoinLines(ls) : ls \in UNION { [1..n -> LineSet] : n \in 1..MaxLines } }

\* processDocument after extractContent returned rawContent
StructInit ==
    /\ rawContent \in Contents
    /\ chapters = <<>>
    /\ analyzed = FALSE
    /\ Idle({"clamp", "trim", "context", "assistant", "concepts", "summary", "process", "voice"})

\* processDocument: const chapters = await analyzeStructure(rawContent)
AnalyzeStructure ==
    /\ ~analyzed
    /\ chapters' = analyzeStructure(rawContent)
    /\ analyzed' = TRUE
    /\ UNCHANGED <<rawContent, clampVars, trimVars, ctxVars, assistantVars, conceptVars, summaryVars, processVars, voiceVars>>

SpecStructure == StructInit /\ [][AnalyzeStructure]_vars

SpecClamp == ClampInit /\ [][ClampPage]_vars

TrimNext == TrimText \/ TrimTextForSummary

SpecTrim == TrimInit /\ [][TrimNext]_vars

SpecContext == ContextInit /\ [][BuildAssistantContext]_vars

SpecConcepts == ConceptsInit /\ [][ExtractConcepts]_vars

SummaryNext == GenerateDocumentSummary \/ Tick

SpecSummary == SummaryInit /\ [][SummaryNext]_vars

ProcessNext == ProcessStart \/ ProcessSettle

SpecProcess == ProcessInit /\ [][ProcessNext]_vars

AssistantNext == GenerateStart \/ GenerateSettle \/ Clear

SpecAssistant == AssistantInit /\ [][AssistantNext]_vars

VoiceNext ==
    \/ Speak \/ SpeakContinuous \/ Stop \/ TtsSettle \/ AudioLoaded \/ AudioFinished
    \/ PlayRejected \/ UtteranceStarted \/ UtteranceFinished \/ TimerFires
    \/ EscapeKeyDown \/ EscapeKeyUp

SpecVoice == VoiceInit /\ [][VoiceNext]_vars

-----------------------------------------------------------------------------
(* Chapter segmentation: the claims *)

\* The marker heuristic as the specification words it, on the raw line.
SpecMarker(rawLine) ==
    LET t == trim(rawLine)
    IN  /\ Len(t) < 100
        /\ \/ /\ Len(t) >= 7
              /\ \A i \in 1..7 : toLowerChar(CharAt(t, i)) = CharAt("chapter", i)
           \/ \E n \in 1..(Len(t) - 1) :
                 /\ \A i \in 1..n : IsDigit(CharAt(t, i))
                 /\ CharAt(t, n + 1) \in {".", " ", "\t", "\r", "\n"}

rawLines == splitLines(rawContent)

\* the line numbers of the marker lines of rawContent, ascending
MarkerLines ==
    LET idx == {i \in 1..Len(rawLines) : SpecMarker(rawLines[i])}
    IN  [k \in 1..Cardinality(idx) |->
            CHOOSE i \in idx : Cardinality({j \in idx : j < i}) = k - 1]

\* the character offset of line i: the characters and line breaks before it
RECURSIVE LineOffset(_)
LineOffset(i) == IF i <= 1 THEN 0 ELSE LineOffset(i - 1) + Len(rawLines[i - 1]) + 1

\* C1: the chapters analyzeStructure returns partition the content contiguously:
\* the first starts at 0, each ends where the next starts, the last ends at
\* content.length, also when text precedes the first marker line.
C1_ChaptersPartitionContent ==
    analyzed =>
        /\ Len(chapters) >= 1
        /\ chapters[1].startPosition = 0
        /\ \A i \in 1..(Len(chapters) - 1) :
              chapters[i].endPosition = chapters[i + 1].startPosition
        /\ chapters[Len(chapters)].endPosition = Len(rawContent)

\* C8: content without a marker line yields exactly one chapter, titled
\* "Full Document", from 0 to content.length.
C8_NoMarkerSingleChapter ==
    (analyzed /\ Len(MarkerLines) = 0) =>
        /\ Len(chapters) = 1
        /\ chapters[1].title = "Full Document"
        /\ chapters[1].startPosition = 0
        /\ chapters[1].endPosition = Len(rawContent)

C8_Witness ==
    /\ analyzed
    /\ Len(MarkerLines) = 0
    /\ Len(rawLines) >= 2
    /\ Len(chapters) = 1
    /\ chapters[1].endPosition > MarkerMaxLen

\* C9: k >= 1 marker lines yield exactly k chapters in line order; chapter i
\* is titled with the trimmed i-th marker line, starts at that line's offset
\* and ends at the next marker line's offset, the last at content.length.
C9_OneChapterPerMarker ==
    (analyzed /\ Len(MarkerLines) >= 1) =>
        /\ Len(chapters) = Len(MarkerLines)
        /\ \A i \in 1..Len(MarkerLines) :
              /\ chapters[i].title = trim(rawLines[MarkerLines[i]])
              /\ chapters[i].startPosition = LineOffset(MarkerLines[i])
              /\ chapters[i].endPosition =
                    IF i < Len(MarkerLines) THEN LineOffset(MarkerLines[i + 1])
                    ELSE Len(rawContent)

\* two consecutive marker lines behind a line of plain text
C9_Witness ==
    /\ analyzed
    /\ Len(MarkerLines) = 2
    /\ MarkerLines[1] = 2
    /\ MarkerLines[2] = 3
    /\ Len(chapters) = 2
    /\ chapters[1].startPosition > 0

\* C10 as stated: every chapter has 0 <= startPosition < endPosition <=
\* content.length, for every content including the empty string.
C10_StartBeforeEnd ==
    analyzed =>
        \A i \in 1..Len(chapters) :
            /\ 0 <= chapters[i].startPosition
            /\ chapters[i].startPosition < chapters[i].endPosition
            /\ chapters[i].endPosition <= Len(rawContent)

\* C10 as amended: every chapter has 0 <= startPosition <= endPosition <=
\* content.length, and startPosition < endPosition when the content is not empty.
C10_StartBeforeEndUnlessEmpty ==
    analyzed =>
        /\ Len(chapters) >= 1
        /\ \A i \in 1..Len(chapters) :
              /\ 0 <= chapters[i].startPosition
              /\ chapters[i].startPosition <= chapters[i].endPosition
              /\ chapters[i].endPosition <= Len(rawContent)
              /\ (Len(rawContent) > 0 => chapters[i].startPosition < chapters[i].endPosition)

\* a document whose last line is a marker line, behind another chapter
C10_Witness ==
    /\ analyzed
    /\ Len(MarkerLines) >= 2
    /\ MarkerLines[Len(MarkerLines)] = Len(rawLines)
    /\ chapters[Len(chapters)].endPosition = Len(rawContent)

-----------------------------------------------------------------------------
(* clampPage and trimText: the claims *)

\* C2: with maxPage >= 1 clampPage returns an integer in [1, maxPage]: 1 for
\* every page <= 0 and every non-finite page, maxPage for every finite page
\* above maxPage.
C2_ClampPageInRange ==
    (clamped # NoValue /\ LessEq(Num(1), maxPage)) =>
        /\ IsInteger(clamped)
        /\ LessEq(Num(1), clamped)
        /\ LessEq(clamped, maxPage)
        /\ (LessEq(page, Num(0)) \/ ~IsFinite(page)) => clamped = Num(1)
        /\ (IsFinite(page) /\ Less(maxPage, page)) => clamped = maxPage

\* the characters of s from position a to b are all whitespace
AllSpace(s, a, b) == \A i \in a..b : IsSpace(CharAt(s, i))

EndsWithEllipsis(s) == Len(s) >= 3 /\ SubSeq(s, Len(s) - 2, Len(s)) = "..."

-----------------------------------------------------------------------------
(* buildAssistantContext: the claims *)

\* the body of the segment that starts with label, "" when there is none
SegmentBody(label) ==
    IF \E i \in 1..Len(segments) : HasPrefix(segments[i], label)
    THEN LET seg == segments[CHOOSE i \in 1..Len(segments) : HasPrefix(segments[i], label)]
         IN  SubSeq(seg, Len(label) + 1, Len(seg))
    ELSE ""

HasSegment(label) == \E i \in 1..Len(segments) : HasPrefix(segments[i], label)

\* the texts of the document a window can hold unshortened: the gist, the content,
\* a chapter's span, a synopsis, a range of pages
WholeTexts ==
    LET doc == ctxOpts.document
    IN  {doc.summary.gist, doc.content}
        \cup {slice(doc.content, doc.chapters[i].startPosition, doc.chapters[i].endPosition) :
                 i \in 1..Len(doc.chapters)}
        \cup {doc.summary.sections[i].synopsis : i \in 1..Len(doc.summary.sections)}
        \cup {slice(doc.content, doc.pageOffsets[i], doc.pageOffsets[j]) :
                 i \in 1..Len(doc.pageOffsets), j \in 1..Len(doc.pageOffsets)}

\* no text of the model's documents holds a ".", so a body that ends in "..." was shortened
WithinBudget(body, whole, budget) ==
    Len(body) <= budget /\ (body \in whole \/ EndsWithEllipsis(body))

\* the lines of CHAPTER SUMMARIES, one per section (no title or synopsis of the
\* model holds a line break)
SummaryLinesWithinBudget(body, sections) ==
    LET lines == splitLines(body)
    IN  /\ Len(lines) = Len(sections)
        /\ \A i \in 1..Len(sections) :
              LET lead == Bullet \o " " \o sections[i].title \o ": "
              IN  /\ HasPrefix(lines[i], lead)
                  /\ WithinBudget(SubSeq(lines[i], Len(lead) + 1, Len(lines[i])),
                                  {sections[i].synopsis}, 160)

\* C6: each budgeted segment body stays within its budget: VISIBLE CONTEXT 900,
\* CHAPTER CONTEXT 600 (1400 with useExtendedContext), DOCUMENT GIST 600, each
\* chapter synopsis 160, DOCUMENT PREVIEW 2000; a shortened body ends in "...".
C6_SegmentsWithinBudget ==
    (built /\ ctxOpts.hasDocument) =>
        LET doc == ctxOpts.document
        IN  /\ HasSegment("VISIBLE CONTEXT:\n") =>
                  WithinBudget(SegmentBody("VISIBLE CONTEXT:\n"), WholeTexts, 900)
            /\ HasSegment("CHAPTER CONTEXT:\n") =>
                  WithinBudget(SegmentBody("CHAPTER CONTEXT:\n"), WholeTexts,
                               IF ctxOpts.useExtendedContext THEN 1400 ELSE 600)
            /\ HasSegment("DOCUMENT GIST:\n") =>
                  WithinBudget(SegmentBody("DOCUMENT GIST:\n"), {doc.summary.gist}, 600)
            /\ HasSegment("DOCUMENT PREVIEW:\n") =>
                  WithinBudget(SegmentBody("DOCUMENT PREVIEW:\n"), {doc.content}, 2000)
            /\ HasSegment("CHAPTER SUMMARIES:\n") =>
                  SummaryLinesWithinBudget(SegmentBody("CHAPTER SUMMARIES:\n"),
                                           doc.summary.sections)

\* a PDF read with useExtendedContext: the page window is cut to 900 characters,
\* the chapter window holds more than 600, the synopses are cut to 160
C6_Witness ==
    /\ built
    /\ ctxOpts.hasDocument
    /\ ctxOpts.useExtendedContext
    /\ ctxOpts.document.type = "pdf"
    /\ EndsWithEllipsis(SegmentBody("VISIBLE CONTEXT:\n"))
    /\ Len(SegmentBody("CHAPTER CONTEXT:\n")) > 600
    /\ HasSegment("CHAPTER SUMMARIES:\n")
    /\ HasSegment("DOCUMENT GIST:\n")

\* the page clamping as the specification words it: 1 for a page <= 0 or not
\* finite, the last page for a page above it
SpecClampPage(p, lastPage) ==
    IF ~IsFinite(p) \/ LessEq(p, Num(0)) THEN 1
    ELSE Max(1, Min(lastPage, p.v))

\* C7: for a PDF with a page-offset table of N >= 1 pages and current page p
\* (clamped to [1, N]) the visible context is
\* content[pageOffsets[max(1, p-1) - 1], pageOffsets[min(N, p+1)]) trimmed to 900.
\* Stated for the windows that hold text: for an empty window the builder goes on
\* to its chapter and preview fallbacks.
C7_PdfVisibleWindow ==
    LET doc == ctxOpts.document
        lastPage == Len(doc.pageOffsets) - 1
        p == SpecClampPage(ctxOpts.currentPage, lastPage)
        from == doc.pageOffsets[Max(1, p - 1)]
        to == doc.pageOffsets[Min(lastPage, p + 1) + 1]
    IN  (/\ built
         /\ ctxOpts.hasDocument
         /\ ctxOpts.document.type = "pdf"
         /\ Len(ctxOpts.document.pageOffsets) >= 2
         /\ ctxOpts.currentPage # NoValue
         /\ to > from) =>
            SegmentBody("VISIBLE CONTEXT:\n") = trimText(slice(doc.content, from, to), 900)

\* the number of segments that start with label
CountSegments(label) ==
    Cardinality({i \in 1..Len(segments) : HasPrefix(segments[i], label)})

\* body is content, or content cut to at most 2000 characters and closed with "..."
IsPreviewOf(body, content) ==
    /\ Len(body) <= 2000
    /\ \/ body = content
       \/ /\ EndsWithEllipsis(body)
          /\ HasPrefix(content, SubSeq(body, 1, Len(body) - 3))

\* one line per section: the bullet, the title, the synopsis trimmed to 160
SummaryLines(sections) ==
    Join([i \in 1..Len(sections) |->
            Bullet \o " " \o sections[i].title \o ": " \o trimText(sections[i].synopsis, 160)],
         "\n")

\* C13, as stated: with useExtendedContext and a document, exactly one extra
\* segment is appended, CHAPTER SUMMARIES with one line per section when a summary
\* exists, otherwise DOCUMENT PREVIEW of at most 2000 characters of content; never
\* both, and neither without useExtendedContext.
C13_ExactlyOneExtendedSegment ==
    built =>
        LET doc == ctxOpts.document
            nSummaries == CountSegments("CHAPTER SUMMARIES:\n")
            nPreview == CountSegments("DOCUMENT PREVIEW:\n")
        IN  IF ctxOpts.hasDocument /\ ctxOpts.useExtendedContext
            THEN IF Len(doc.summary.sections) > 0
                 THEN /\ nSummaries = 1 /\ nPreview = 0
                      /\ SegmentBody("CHAPTER SUMMARIES:\n") = SummaryLines(doc.summary.sections)
                 ELSE /\ nSummaries = 0 /\ nPreview = 1
                      /\ IsPreviewOf(SegmentBody("DOCUMENT PREVIEW:\n"), doc.content)
            ELSE nSummaries = 0 /\ nPreview = 0

\* C13, amended: at most one extra segment is appended; a document without
\* summary sections and without content gets none.
C13_AtMostOneExtendedSegment ==
    built =>
        LET doc == ctxOpts.document
            nSummaries == CountSegments("CHAPTER SUMMARIES:\n")
            nPreview == CountSegments("DOCUMENT PREVIEW:\n")
        IN  IF ctxOpts.hasDocument /\ ctxOpts.useExtendedContext
            THEN IF Len(doc.summary.sections) > 0
                 THEN /\ nSummaries = 1 /\ nPreview = 0
                      /\ SegmentBody("CHAPTER SUMMARIES:\n") = SummaryLines(doc.summary.sections)
                 ELSE IF doc.content # ""
                 THEN /\ nSummaries = 0 /\ nPreview = 1
                      /\ IsPreviewOf(SegmentBody("DOCUMENT PREVIEW:\n"), doc.content)
                 ELSE nSummaries = 0 /\ nPreview = 0
            ELSE nSummaries = 0 /\ nPreview = 0

\* a document with content and two chapter synopses longer than 160, read with
\* useExtendedContext: the summaries are there and the preview is not
C13_Witness ==
    /\ built
    /\ ctxOpts.hasDocument /\ ctxOpts.useExtendedContext
    /\ ctxOpts.document.content # ""
    /\ Len(ctxOpts.document.summary.sections) >= 2
    /\ \A i \in 1..Len(ctxOpts.document.summary.sections) :
          Len(ctxOpts.document.summary.sections[i].synopsis) > 160
    /\ CountSegments("CHAPTER SUMMARIES:\n") = 1
    /\ CountSegments("DOCUMENT PREVIEW:\n") = 0

\* the labels of the segments built from the document
DocumentLabels ==
    {"DOCUMENT: ", "SUBJECT: ", "KEYWORDS: ", "DOCUMENT GIST:\n", "CURRENT PAGE: ",
     "VISIBLE CONTEXT:\n", "CHAPTER CONTEXT:\n", "CHAPTER SUMMARIES:\n",
     "DOCUMENT PREVIEW:\n"}

\* the segments that do not start with label
SegmentsWithout(label) ==
    LET other(segment) == ~HasPrefix(segment, label)
    IN  SelectSeq(segments, other)

\* C18: buildAssistantContext returns for every combination of missing optional
\* inputs; an absent document, currentPage, selectedText, extraContext or
\* references only omits its segment, a whitespace-only selectedText or
\* extraContext is omitted too, and a call with no inputs returns "".
C18_AbsentInputsOmitSegments ==
    built =>
        /\ ~ctxOpts.hasDocument => \A label \in DocumentLabels : ~HasSegment(label)
        /\ HasSegment("CURRENT PAGE: ") = (ctxOpts.hasDocument /\ ctxOpts.currentPage # NoValue)
        /\ HasSegment("FOCUSED TEXT:\n") = (trim(ctxOpts.selectedText) # "")
        /\ HasSegment("ADDITIONAL CONTEXT:\n") = (trim(ctxOpts.extraContext) # "")
        /\ HasSegment("REFERENCES:\n") = (ctxOpts.references # <<>>)
        /\ SegmentsWithout("FOCUSED TEXT:\n")
              = buildSegments([ctxOpts EXCEPT !.selectedText = ""])
        /\ SegmentsWithout("ADDITIONAL CONTEXT:\n")
              = buildSegments([ctxOpts EXCEPT !.extraContext = ""])
        /\ SegmentsWithout("REFERENCES:\n")
              = buildSegments([ctxOpts EXCEPT !.references = <<>>])
        /\ (/\ ~ctxOpts.hasDocument
            /\ trim(ctxOpts.selectedText) = "" /\ trim(ctxOpts.extraContext) = ""
            /\ ctxOpts.references = <<>>) => (segments = <<>> /\ context = "")

\* a call without document, page and references, with a selectedText and an
\* extraContext of white space only, has returned the empty string
C18_Witness ==
    /\ built
    /\ ~ctxOpts.hasDocument
    /\ ctxOpts.currentPage = NoValue
    /\ ctxOpts.selectedText # "" /\ trim(ctxOpts.selectedText) = ""
    /\ ctxOpts.extraContext # "" /\ trim(ctxOpts.extraContext) = ""
    /\ ctxOpts.references = <<>>
    /\ context = ""

\* the page of the call lies outside [1, totalPages] or is not finite, and the
\* document has pages: a PDF with page offsets, or chapters to match
PageOutOfRange ==
    /\ ctxOpts.hasDocument
    /\ ctxOpts.currentPage # NoValue
    /\ ctxOpts.document.totalPages >= 1
    /\ \/ ctxOpts.document.type = "pdf" /\ Len(ctxOpts.document.pageOffsets) > 0
       \/ ctxOpts.document.type # "pdf" /\ Len(ctxOpts.document.chapters) > 0
    /\ \/ ~IsFinite(ctxOpts.currentPage)
       \/ Less(ctxOpts.currentPage, Num(1))
       \/ Less(Num(ctxOpts.document.totalPages), ctxOpts.currentPage)

\* C19: the requested page is clamped before use: for a document of N >= 1
\* pages and a currentPage outside [1, N] or not finite, buildAssistantContext
\* returns the same string as for clampPage(currentPage, N).
C19_PageClampedBeforeUse ==
    (built /\ PageOutOfRange) =>
        context = buildAssistantContext(
                      [ctxOpts EXCEPT !.currentPage =
                          clampPage(ctxOpts.currentPage, Num(ctxOpts.document.totalPages))])

\* the lines of the REFERENCES segment, without its label
ReferenceLines ==
    LET labelled(segment) == HasPrefix(segment, "REFERENCES:\n")
        found == SelectSeq(segments, labelled)
    IN  IF found = <<>> THEN <<>>
        ELSE [i \in 1..Min(Len(ctxOpts.references), ReferenceLimit) |->
                NatToString(i) \o ". " \o ctxOpts.references[i].text]

\* the REFERENCES segment lists the first three references supplied, numbered
\* in input order
ReferencesTopThree ==
    (built /\ ctxOpts.references # <<>>) =>
        \E i \in 1..Len(segments) :
            segments[i] = "REFERENCES:\n" \o Join(ReferenceLines, "\n")

\* C23: when prior references are supplied, the REFERENCES segment lists only
\* the first 3, numbered 1., 2., 3. in input order, and the text of each listed
\* reference is truncated to a bounded length: no longer than the largest
\* budget of the builder, that of the document preview.
C23_ReferencesTruncated ==
    (built /\ ctxOpts.references # <<>>) =>
        /\ ReferencesTopThree
        /\ \A i \in 1..Len(segments) :
              HasPrefix(segments[i], "REFERENCES:\n") =>
                  Len(segments[i]) <=
                      Len("REFERENCES:\n"
                            \o Join([n \in 1..Len(ReferenceLines) |->
                                       Take(ReferenceLines[n],
                                            Len(NatToString(n) \o ". ") + PreviewMaxChars)],
                                    "\n"))

\* the labels of the segments in the order the builder composes them: the
\* header, the visible context, the focused text, the chapter context, the
\* extended-context segment, the references, the additional context
SegmentOrder ==
    <<"DOCUMENT: ", "SUBJECT: ", "KEYWORDS: ", "DOCUMENT GIST:\n", "CURRENT PAGE: ",
      "VISIBLE CONTEXT:\n", "FOCUSED TEXT:\n", "CHAPTER CONTEXT:\n",
      "CHAPTER SUMMARIES:\n", "DOCUMENT PREVIEW:\n", "REFERENCES:\n",
      "ADDITIONAL CONTEXT:\n">>

\* the place of a segment in SegmentOrder, 0 for a segment with no label of it
SegmentRank(segment) ==
    IF \E r \in 1..Len(SegmentOrder) : HasPrefix(segment, SegmentOrder[r])
    THEN CHOOSE r \in 1..Len(SegmentOrder) : HasPrefix(segment, SegmentOrder[r])
    ELSE 0

\* the segments with one blank line between neighbours
JoinedSegments == Join(segments, "\n\n")

EdgeSpace(s) == s # "" /\ (IsSpace(CharAt(s, 1)) \/ IsSpace(CharAt(s, Len(s))))

\* C24: the segments appear in the fixed order header (title, subject, keywords,
\* gist, current page), visible context, focused text, chapter context,
\* extended-context segment, references, additional context; the result is the
\* segments joined by "\n\n", and it has no leading or trailing white space.
C24_OrderedJoinedTrimmed ==
    built =>
        /\ \A i \in 1..Len(segments) : SegmentRank(segments[i]) > 0
        /\ \A i \in 1..Len(segments) : \A j \in 1..Len(segments) :
              i < j => SegmentRank(segments[i]) < SegmentRank(segments[j])
        /\ ~(HasSegment("CHAPTER SUMMARIES:\n") /\ HasSegment("DOCUMENT PREVIEW:\n"))
        /\ ~EdgeSpace(context)
        /\ HasPrefix(JoinedSegments, context)
        /\ \A k \in (Len(context) + 1)..Len(JoinedSegments) :
              IsSpace(CharAt(JoinedSegments, k))

\* a PDF read with a page and a selection: header, visible context, focused
\* text and chapter context are all there, and the last segment ends with the
\* blank line that closes a page, which the result does not
C24_Witness ==
    /\ built
    /\ ctxOpts.hasDocument
    /\ HasSegment("CURRENT PAGE: ")
    /\ HasSegment("VISIBLE CONTEXT:\n")
    /\ HasSegment("CHAPTER CONTEXT:\n")
    /\ EdgeSpace(segments[Len(segments)])
    /\ context # JoinedSegments

-----------------------------------------------------------------------------
(* useAssistant: the claims *)

\* the remote completion of call c failed: callGemini threw, on a network error,
\* a response that is not ok, a completion without text or a missing key
RemoteFailed(c) == ~callGemini(geminiApiKey, calls[c].reply).ok

\* C4: whenever the remote completion call fails, generate resolves, with an
\* AIResponse whose response contains "offline", and that AIResponse is appended
\* to the conversation history.
C4_FailureResolvesOffline ==
    [][\A c \in 1..Len(calls) :
          (calls[c].state = "awaiting" /\ calls'[c].state # "awaiting" /\ RemoteFailed(c)')
              => /\ calls'[c].state = "resolved"
                 /\ calls'[c].result.query = calls[c].args.query
                 /\ Contains(calls'[c].result.response, "offline")
                 /\ responses' = Append(responses, calls'[c].result)]_vars

\* a call whose fetch was rejected has resolved, and its fallback is in the history
C4_Witness ==
    \E c \in 1..Len(calls) :
        /\ calls[c].state = "resolved"
        /\ calls[c].reply.kind = "reject"
        /\ Contains(calls[c].result.response, "offline")
        /\ Len(responses) >= 1
        /\ responses[Len(responses)] = calls[c].result

IsPrefix(s, t) == Len(s) <= Len(t) /\ SubSeq(t, 1, Len(s)) = s

\* C16, as stated: the history is append-only over every operation, generate
\* settling and clear alike: each step's new history has the previous one as a
\* prefix.
C16_HistoryAppendOnly ==
    [][IsPrefix(responses, responses')]_vars

\* C16, amended: a settling generate appends one AIResponse to the history and
\* changes nothing recorded before; the history only ever loses entries by clear,
\* which empties it.
C16_HistoryAppendOnlyUntilClear ==
    [][/\ calls' # calls =>
             \/ responses' = responses
             \/ /\ Len(responses') = Len(responses) + 1
                /\ IsPrefix(responses, responses')
       /\ ~IsPrefix(responses, responses') =>
             responses' = <<>> /\ calls' = calls /\ isLoading' = isLoading]_vars

\* two calls have settled, and both their responses are in the history, in the
\* order in which they settled
C16_Witness ==
    /\ Len(calls) >= 2
    /\ Len(responses) >= 2
    /\ \A c \in 1..Len(calls) : calls[c].state = "resolved"
    /\ \E c, d \in 1..Len(calls) :
          /\ c # d
          /\ responses[Len(responses) - 1] = calls[c].result
          /\ responses[Len(responses)] = calls[d].result

\* C17: isLoading is true at every moment at which at least one generate call
\* has started and not yet settled, and false once none is in flight, also when
\* two calls overlap.
C17_LoadingCoversCalls ==
    isLoading = (\E c \in 1..Len(calls) : calls[c].state = "awaiting")

\* C25: with no Gemini API key configured, callGemini throws on each request
\* before any request reaches the remote end, and generate catches it: the call
\* resolves with the offline fallback AIResponse, whose text carries the
\* missing-key message, appended to the history.
C25_MissingKeyResolvesOffline ==
    [][\A c \in 1..Len(calls) :
          (geminiApiKey = "" /\ calls[c].state = "awaiting" /\ calls'[c].state # "awaiting")
              => /\ calls'[c].reply = NoReply
                 /\ callGemini(geminiApiKey, calls'[c].reply)
                       = Thrown("Missing VITE_GEMINI_API_KEY")
                 /\ calls'[c].state = "resolved"
                 /\ calls'[c].result.query = calls[c].args.query
                 /\ calls'[c].result.context = calls[c].context
                 /\ calls'[c].result.references = <<>>
                 /\ calls'[c].result.response
                       = "Note: Falling back to offline mode (Missing VITE_GEMINI_API_KEY)."
                         \o "\n\nTemporary offline response:\n\n"
                         \o buildPromptForMode(calls[c].args.mode, calls[c].args.query)
                         \o "\n\nBased on context length "
                         \o NatToString(Len(calls[c].context)) \o " characters."
                 /\ responses' = Append(responses, calls'[c].result)]_vars

\* without a key two calls have settled, no request was sent for either, and
\* the history ends with the fallback of one of them
C25_Witness ==
    /\ geminiApiKey = ""
    /\ Len(calls) >= 2
    /\ \A c \in 1..Len(calls) :
          /\ calls[c].state = "resolved"
          /\ calls[c].reply = NoReply
          /\ Contains(calls[c].result.response, "Missing VITE_GEMINI_API_KEY")
    /\ Len(responses) >= 1
    /\ \E c \in 1..Len(calls) : responses[Len(responses)] = calls[c].result

\* the results of calls, in the order given
ResultsOf(order) == [k \in 1..Len(order) |-> calls[order[k]].result]

\* the number of times the response of call c stands in the history
TimesRecorded(c) ==
    Cardinality({k \in 1..Len(responses) : responses[k] = calls[c].result})

\* C29: when generate calls of one useAssistant instance overlap, no history
\* update is lost: after all of them have settled, through the try or the catch
\* block, and absent clear(), the history holds exactly one AIResponse per call,
\* in the order in which the calls settled.
C29_OverlappingCallsAllRecorded ==
    (events.cleared = {} /\ \A c \in 1..Len(calls) : calls[c].state # "awaiting") =>
        /\ Len(responses) = Len(calls)
        /\ Len(events.settled) = Len(calls)
        /\ responses = ResultsOf(events.settled)
        /\ \A c \in 1..Len(calls) : TimesRecorded(c) = 1

\* two calls overlapped, the second settled first, with a completion, and the
\* first through the fallback; the history holds both in the order of settling
C29_Witness ==
    /\ events.cleared = {}
    /\ events.settled = <<2, 1>>
    /\ calls[2].reply.kind = "json" /\ callGemini(geminiApiKey, calls[2].reply).ok
    /\ calls[1].reply.kind = "reject"
    /\ responses = <<calls[2].result, calls[1].result>>

\* C30: clear() empties the history and does not cancel work in flight: a call
\* that started before clear() and settles after it appends its AIResponse
\* exactly once to the emptied history, so that the history is that response
\* alone when no other call settled since.  At every moment the history is the
\* responses of the calls that settled since the last clear(), in the order of
\* settling.
C30_ClearKeepsWorkInFlight ==
    /\ responses = ResultsOf(events.settled)
    /\ \A c \in events.cleared :
          (\E k \in 1..Len(events.settled) : events.settled[k] = c) =>
              /\ calls[c].state = "resolved"
              /\ TimesRecorded(c) = 1
              /\ events.settled = <<c>> => responses = <<calls[c].result>>

\* two calls started, the second settled, clear() was called and then the first
\* settled: the history is the response of the first call alone
C30_Witness ==
    /\ events.cleared = {1, 2}
    /\ events.settled = <<1>>
    /\ calls[1].state = "resolved" /\ calls[2].state = "resolved"
    /\ responses = <<calls[1].result>>
    /\ responses # <<calls[2].result>>

-----------------------------------------------------------------------------
(* extractConcepts: the claims *)

\* C11: every concept's importance is an integer in [1, 10] equal to
\* clamp(floor(frequency / 2), 1, 10), so of two concepts the one with the higher
\* frequency never has the lower importance.
C11_ImportanceClamped ==
    extracted =>
        /\ \A i \in 1..Len(concepts) :
              /\ IsInteger(concepts[i].importance)
              /\ concepts[i].importance.v \in 1..10
              /\ concepts[i].importance.v = Max(1, Min(10, concepts[i].frequency \div 2))
        /\ \A i, j \in 1..Len(concepts) :
              concepts[i].frequency > concepts[j].frequency
                  => concepts[i].importance.v >= concepts[j].importance.v

\* concepts at the cap, below it and at the floor of the importance scale
C11_Witness ==
    /\ extracted
    /\ \E i, j \in 1..Len(concepts) :
          /\ concepts[i].frequency >= 22 /\ concepts[i].importance = Num(10)
          /\ concepts[j].frequency = 3 /\ concepts[j].importance = Num(1)

\* the 0-based offsets at which term stands in the lower-cased content as a word
\* token: a whole run of word characters
TokenOffsets(term) ==
    LET lower == toLowerCase(conceptContent)
        wordAt(i) == i >= 1 /\ i <= Len(lower) /\ CharAt(lower, i) \in WordChars
    IN  {i - 1 : i \in {j \in 1..Len(lower) :
                           /\ j + Len(term) - 1 <= Len(lower)
                           /\ SubSeq(lower, j, j + Len(term) - 1) = term
                           /\ ~wordAt(j - 1)
                           /\ ~wordAt(j + Len(term))}}

\* the window of 200 characters around firstMention, trimmed
ContextOfFirstMention ==
    extracted =>
        \A n \in 1..Len(concepts) :
            /\ concepts[n].context
                  = trim(slice(conceptContent, Max(0, concepts[n].firstMention - 100),
                               Min(Len(conceptContent), concepts[n].firstMention + 100)))
            /\ Len(concepts[n].context) <= 200

\* C28: for every concept, firstMention is the character offset of the first
\* occurrence of the term as a word token of the content (the occurrences its
\* frequency counts), and context is the content window
\* [max(0, firstMention - 100), min(content.length, firstMention + 100)) with
\* surrounding white space removed, so at most 200 characters.
C28_FirstMentionIsFirstToken ==
    extracted =>
        /\ ContextOfFirstMention
        /\ \A n \in 1..Len(concepts) :
              /\ Cardinality(TokenOffsets(concepts[n].term)) = concepts[n].frequency
              /\ concepts[n].firstMention \in TokenOffsets(concepts[n].term)
              /\ \A at \in TokenOffsets(concepts[n].term) : concepts[n].firstMention <= at

-----------------------------------------------------------------------------
(* generateDocumentSummary: the claims *)

\* C12: generateDocumentSummary is idempotent: two calls with the same content,
\* chapters and metadata return summaries equal in every field, gist, sections,
\* keywords and generatedAt, whatever time passes between the calls.
C12_SummaryIdempotent ==
    \A i, j \in 1..Len(summaryResults) : summaryResults[i] = summaryResults[j]

-----------------------------------------------------------------------------
(* processDocument: the claims *)

\* the parser of the file's type threw, or the EPUB or DOCX parser returned blank text
ParserFailed(call) ==
    LET type == getFileType(call.file.name)
    IN  \/ type \in {"pdf", "epub", "docx"} /\ call.fault = "parser"
        \/ type \in {"epub", "docx"} /\ call.fault \in {"none", "cacheWrite", "blobWrite"}
              /\ trim(call.file.text) = ""

\* a title line and a bracketed note that text extraction is unavailable
IsPlaceholder(content) ==
    /\ HasPrefix(content, "# ")
    /\ Contains(content, "\n\n[")
    /\ Contains(content, "ext extraction unavailable")
    /\ CharAt(content, Len(content)) = "]"

\* C14: when the PDF, EPUB or DOCX parser throws, or the EPUB or DOCX parser
\* yields blank text, extraction does not throw: processDocument produces a
\* Document whose content is a placeholder and whose chapters are one chapter
\* that spans the whole content.
C14_ParserFailureGivesPlaceholder ==
    (upload.state \in {"resolved", "rejected"} /\ ParserFailed(upload)
        /\ upload.path \notin {"cache", "revived"}) =>
        /\ upload.state = "resolved"
        /\ IsPlaceholder(upload.document.content)
        /\ Len(upload.document.chapters) = 1
        /\ upload.document.chapters[1].startPosition = 0
        /\ upload.document.chapters[1].endPosition = Len(upload.document.content)

\* a PDF whose parser threw has been processed into a placeholder document
C14_Witness ==
    /\ upload.state = "resolved"
    /\ upload.fault = "parser"
    /\ upload.path = "processed"
    /\ upload.document.type = "pdf"
    /\ IsPlaceholder(upload.document.content)
    /\ Len(upload.document.chapters) = 1

\* C15: processDocument never rejects: whichever collaborator fails (file
\* hashing, cache read, PDF blob read, parser, cache write), it resolves with a
\* Document.
C15_ProcessNeverRejects ==
    upload.state \in {"resolved", "rejected"} =>
        /\ upload.state = "resolved"
        /\ upload.document # NoValue

\* the entries of the documents store for the file of the running call
CachedEntries == {e \in docCache : e.hash = upload.file.name}

\* the cached document is a PDF that cannot be served: no page-offset table of
\* more than one entry, empty content, placeholder content, or no binary
\* payload, neither fileData in the entry nor a persisted blob
StalePdf(cached) ==
    /\ cached.type = "pdf"
    /\ \/ Len(cached.pageOffsets) <= 1
       \/ cached.content = ""
       \/ SubSeq(cached.content, 1, 2) = "# "
       \/ ~cached.hasFileData /\ upload.file.name \notin blobCache

\* C27: processDocument returns a cache hit for a PDF only when a binary payload
\* is attached to the returned Document (cached fileData or the persisted blob);
\* a cached PDF with no payload, with no page-offset table of more than one
\* entry, with empty content or with placeholder content starting "# " is
\* reprocessed from the uploaded file and re-cached; a cached non-PDF is
\* returned without reprocessing.  Reprocessing is stated for the calls in which
\* no collaborator fails.
C27_CacheHitNeedsPayload ==
    [][(upload.state = "running" /\ upload'.state # "running") =>
          /\ (upload'.path \in {"cache", "revived"} /\ upload'.document.type = "pdf") =>
                /\ upload'.document.hasFileData
                /\ \E e \in CachedEntries :
                      /\ ~StalePdf(e.data)
                      /\ upload'.document.content = e.data.content
                      /\ upload'.document.pageOffsets = e.data.pageOffsets
          /\ \A e \in CachedEntries :
                (StalePdf(e.data) /\ upload.fault = "none") =>
                    /\ upload'.state = "resolved"
                    /\ upload'.path = "processed"
                    /\ upload'.document.content
                          = parsePdfContent(upload.file.pages, upload.file.name).content
                    /\ upload'.document.hasFileData
                    /\ [hash |-> upload.file.name,
                        data |-> [upload'.document EXCEPT !.hasFileData = FALSE]] \in docCache'
                    /\ upload.file.name \in blobCache'
          /\ \A e \in CachedEntries :
                (e.data.type # "pdf" /\ upload.fault \notin {"hash", "cacheRead"}) =>
                    /\ upload'.state = "resolved"
                    /\ upload'.path = "cache"
                    /\ upload'.document.content = e.data.content
                    /\ upload'.document.chapters = e.data.chapters
                    /\ upload'.document.concepts = e.data.concepts
                    /\ blobCache' = blobCache]_vars

\* the second upload of a PDF with text is served from the cache, with the
\* persisted blob attached as its payload
C27_Witness ==
    /\ uploads = 2
    /\ upload.state = "resolved"
    /\ upload.path = "revived"
    /\ upload.document.type = "pdf"
    /\ upload.document.hasFileData
    /\ Len(upload.document.pageOffsets) > 1
    /\ upload.file.name \in blobCache

-----------------------------------------------------------------------------
(* parsePdfContent: the claims *)

\* processDocument has returned a Document made from what parsePdfContent
\* returned for the uploaded PDF
ParsedPdf ==
    /\ upload.state = "resolved"
    /\ upload.path = "processed"
    /\ upload.document.type = "pdf"
    /\ upload.fault # "parser"

\* the page-offset table has one entry per page and one more, begins with 0 and
\* never decreases
PageOffsetsShaped ==
    ParsedPdf =>
        LET offsets == upload.document.pageOffsets
        IN  /\ Len(offsets) = Len(upload.file.pages) + 1
            /\ Len(offsets) = upload.document.totalPages + 1
            /\ offsets[1] = 0
            /\ \A i \in 1..(Len(offsets) - 1) : offsets[i] <= offsets[i + 1]

\* C26: for every PDF parsed by parsePdfContent, metadata.pageOffsets has
\* numPages + 1 entries, begins with 0, is monotonically increasing, and its
\* trailing sentinel equals the length of the returned content.
C26_PageOffsetsEndAtContentLength ==
    ParsedPdf =>
        /\ PageOffsetsShaped
        /\ upload.document.pageOffsets[Len(upload.document.pageOffsets)]
              = Len(upload.document.content)

-----------------------------------------------------------------------------
(* useGlobalVoice: the claims *)

\* the audio elements that are playing
PlayingAudios == {a \in 1..Len(voice.audios) : voice.audios[a].state = "playing"}

\* the utterances being spoken
SpeakingUtterances ==
    {u \in 1..Len(voice.utterances) : voice.utterances[u].state = "speaking"}

\* C20: only one voice speaks at a time: in every reachable state at most one
\* audio element or utterance is playing, also when a second speak() was
\* issued while the remote TTS request of the first was in flight.
C20_SingleVoice ==
    Cardinality(PlayingAudios) + Cardinality(SpeakingUtterances) <= 1

\* C21: the global stop control interrupts speech: once stop() has returned,
\* nothing is playing and the continuous-reading queue is empty, and no audio
\* element or utterance starts playing until the next speak() or
\* speakContinuous(), whatever request or timer was pending when stop() ran.
C21_StopInterruptsSpeech ==
    voice.stopReturned =>
        /\ PlayingAudios = {}
        /\ SpeakingUtterances = {}
        /\ voice.globalVoiceState.queue = <<>>

\* an audio element is playing or an utterance is being spoken
SpeechPlaying == PlayingAudios # {} \/ SpeakingUtterances # {}

\* C22: pressing ESC while the AI is speaking stops the speech: an Escape
\* keydown handled by useVoiceConversation in a state where a response is
\* being spoken leads to a state where no speech is playing.
C22_EscapeStopsSpeech ==
    [][("Escape" \notin keysDown /\ "Escape" \in keysDown' /\ SpeechPlaying)
          => ~SpeechPlaying']_vars

=========================================================================
